---------------------------- MODULE Spec2Model ----------------------------
(***************************************************************************)
(* Model of the x402 payment negotiation client of mallory                 *)
(* (src/src/lib/faremeter.ts, src/src/config/payments.ts).                 *)
(*                                                                         *)
(* JavaScript values are modelled as tagged records so that values of      *)
(* different JavaScript types can sit in one list:                         *)
(*   an array entry is [k |-> "str" | "obj" | "null", v |-> string];       *)
(*   for "str" v is the string, for "obj" v is the object's `method`       *)
(*   property ("" when the object has none), for "null" v is "".           *)
(***************************************************************************)
EXTENDS Integers, Sequences, FiniteSets, TLC

VARIABLES
    chAccepts,      \* chooseScheme: the argument of the call
    chResult,       \* chooseScheme: outcome of the call, or NoOutcome
    pc,             \* executeX402Flow: the await the invocation is suspended at
    call,           \* executeX402Flow: endpoint and destructured options
    initialResponse,\* executeX402Flow: the Response of the first fetch
    responseText,   \* executeX402Flow: the body text of the 402 (parsed: acceptsData)
    flowAccepts,    \* executeX402Flow: the resolved accepts list (local `accepts`)
    intent,         \* executeX402Flow: the PaymentIntent handed to signAndSubmit
    paymentResult,  \* executeX402Flow: the FacilitatorResponse of signAndSubmit
    requests,       \* every fetch(endpoint, init) issued, in order
    signCalls,      \* number of signAndSubmit calls made
    result,         \* the Response the promise resolved with
    error,          \* the error the promise rejected with
    faPc,           \* fetchAccepts: the await the call is suspended at
    faEndpoint,     \* fetchAccepts: the endpoint argument
    faResponse,     \* fetchAccepts: the Response of the fetch
    faData,         \* fetchAccepts: the body text of the response (parsed: acceptsData)
    faResult,       \* fetchAccepts: the AcceptsHeader returned
    faError,        \* fetchAccepts: the error thrown
    keyPrev,        \* generateIdempotencyKey: the call before the last one
    keyLast,        \* generateIdempotencyKey: the last call
    pagePc,         \* AmazonDemoPage: where each handlePurchase invocation is suspended
    sku,            \* AmazonDemoPage: state `sku`
    purchasing,     \* AmazonDemoPage: state `purchasing`
    pageResult,     \* AmazonDemoPage: state `result`
    pageResponse,   \* AmazonDemoPage: the Response each invocation's fetch resolved with
    toolPc,         \* ToolExecutor: the await the tool call is suspended at
    toolCall,       \* ToolExecutor: tool name and parameters of the call
    productCache,   \* ToolExecutor: this.productCache
    product,        \* purchaseAmazonProduct: local `product`
    toolRequests,   \* ToolExecutor: the URL of every request of the call, in order
    toolResponse,   \* purchaseAmazonProduct: the Response executeX402Flow resolved with
    toolResult,     \* ToolExecutor: the ToolResult the call returned
    toolCalls,      \* ToolExecutor: number of tool calls made
    balanceResult,  \* purchaseAmazonProduct: local `balanceResult`
    searchLog,      \* ToolExecutor: data.products of every search that returned, in order
    cachedWallet,   \* wallet.ts: module variable `cachedWallet`
    walletEnv,      \* wallet.ts: process.env.MALLORY_WALLET_SECRET_BASE58
    walletFile,     \* wallet.ts: the content of .wallet.json
    generated,      \* wallet.ts: number of Keypair.generate() calls that returned
    fileWrites,     \* wallet.ts: number of writeFileSync calls on .wallet.json
    callers,        \* wallet.ts: each caller of getWallet and what its await received
    flows,          \* concurrent executeX402Flow invocations, each with its locals
    devBalance,     \* wallet.ts: the content of .dev-balances.json
    searches,       \* ToolExecutor: searchAmazonProducts calls running side by side
    acceptsData,    \* accepts resolvers: the parsed 402 body handed to both
    fetchList,      \* accepts resolvers: the list fetchAccepts resolves from it
    flowList,       \* accepts resolvers: the list executeX402Flow resolves from it
    funders,        \* wallet.ts: fundDevWallet calls, each with its local `balance`
    devFile,        \* wallet.ts: whether .dev-balances.json exists and parses
    startBalance,   \* wallet.ts: the balances before the first fundDevWallet call
    isVisible,      \* HealthBanner: state `isVisible`
    isDismissed,    \* HealthBanner: state `isDismissed`
    services,       \* HealthBanner: state `services`
    configValid,    \* HealthBanner: state `configValid`
    isChecking,     \* HealthBanner: state `isChecking`
    check,          \* HealthBanner: the running checkSystemHealth invocation
    checksRun,      \* HealthBanner: number of checkSystemHealth invocations started
    chatPc,         \* createAutonomousChatStream: the await the call is suspended at
    toolUses,       \* createAutonomousChatStream: local `toolUses`
    toolResults,    \* createAutonomousChatStream: local `toolResults`
    rounds          \* createAutonomousChatStream: iterations of the loop begun

chooseVars == <<chAccepts, chResult>>
flowVars == <<pc, call, initialResponse, responseText, flowAccepts, intent, paymentResult,
              requests, signCalls, result, error>>
acceptsVars == <<faPc, faEndpoint, faResponse, faData, faResult, faError>>
keyVars == <<keyPrev, keyLast>>
pageVars == <<pagePc, sku, purchasing, pageResult, pageResponse>>
toolVars == <<toolPc, toolCall, productCache, product, toolRequests, toolResponse, toolResult,
              toolCalls, balanceResult, searchLog>>
walletVars == <<cachedWallet, walletEnv, walletFile, generated, fileWrites, callers>>
pairVars == <<flows, devBalance>>
searchVars == <<searches>>
resolveVars == <<acceptsData, fetchList, flowList>>
fundVars == <<funders, devFile, startBalance>>
bannerVars == <<isVisible, isDismissed, services, configValid, isChecking, check, checksRun>>
chatVars == <<chatPc, toolUses, toolResults, rounds>>
moreVars == <<searchVars, resolveVars, fundVars, bannerVars, chatVars>>
appVars == <<pageVars, toolVars, walletVars, pairVars, moreVars>>
libVars == <<chooseVars, flowVars, acceptsVars, keyVars>>
vars == <<chAccepts, chResult, pc, call, initialResponse, responseText, flowAccepts, intent,
          paymentResult, requests, signCalls, result, error,
          faPc, faEndpoint, faResponse, faData, faResult, faError, keyPrev, keyLast,
          pagePc, sku, purchasing, pageResult, pageResponse,
          toolPc, toolCall, productCache, product, toolRequests, toolResponse, toolResult,
          toolCalls, balanceResult, searchLog,
          cachedWallet, walletEnv, walletFile, generated, fileWrites, callers,
          flows, devBalance, searches, acceptsData, fetchList, flowList, funders, devFile,
          startBalance, isVisible, isDismissed, services, configValid, isChecking, check,
          checksRun, chatPc, toolUses, toolResults, rounds>>

-----------------------------------------------------------------------------
(* Bounds of the model *)

\* longest accepts list handed to chooseScheme directly
MaxAcceptsLen == 3

\* longest `accepts` array in a 402 body
MaxBodyLen == 2

\* most header keys a caller passes in options.headers
MaxCallerHeaders == 2

\* characters of the generated signature (the code's loop runs 88 times)
SigLen == 1

\* most clicks on the purchase button of the demo page in a run
MaxAttempts == 2

\* most tool calls an executor serves in a run
MaxToolCalls == 3

\* callers of getWallet in one process
NumCallers == 3

\* executeX402Flow invocations running concurrently
NumFlows == 2

\* searchAmazonProducts calls running side by side on one executor
NumSearches == 2

\* fundDevWallet calls running side by side in one process
NumFunders == 2

\* health checks of the banner in a run (the first one and the timer's)
MaxChecks == 3

\* iterations of the tool loop that are counted; later ones count as this many
MaxRounds == 3

\* most tool_use blocks in one response of the model
MaxToolUses == 2

\* latest value of Date.now() seen by generateIdempotencyKey
MaxNow == 11

\* most base-36 digits Math.random().toString(36) shows after "0."
MaxFracLen == 1

-----------------------------------------------------------------------------
(* JavaScript values *)

Str(s) == [k |-> "str", v |-> s]
Obj(m) == [k |-> "obj", v |-> m]
Null == [k |-> "null", v |-> ""]

\* typeof x === 'string'
IsString(x) == x.k = "str"

\* JavaScript truthiness of an entry: null and '' are falsy, objects are truthy
Truthy(x) == CASE x.k = "null" -> FALSE
               [] x.k = "str" -> x.v # ""
               [] OTHER -> TRUE

\* all sequences over S of length at most n
SeqsUpTo(S, n) == UNION {[1..m -> S] : m \in 0..n}

-----------------------------------------------------------------------------
(* src/src/config/payments.ts *)

PAYMENT_SCHEMES == <<"x-solana-settlement", "x-ethereum-settlement", "x-bitcoin-settlement">>

\* Array.prototype.includes with a string argument: strict equality, so only
\* a string entry can match
Includes(list, s) == \E i \in 1..Len(list) : list[i] = Str(s)

\* the `null` | PaymentScheme result of choosePreferredScheme
NoScheme == [isNull |-> TRUE, v |-> ""]
Scheme(s) == [isNull |-> FALSE, v |-> s]

\* mutant: the first entry of the input that is a known scheme wins
\* (input order instead of preference order)
choosePreferredSchemeInputOrder(availableSchemes) ==
    LET known == {i \in 1..Len(availableSchemes) :
                    \E p \in 1..Len(PAYMENT_SCHEMES) : availableSchemes[i] = Str(PAYMENT_SCHEMES[p])}
    IN IF known = {} THEN NoScheme
       ELSE Scheme(availableSchemes[CHOOSE i \in known : \A j \in known : i <= j].v)

\* for (const preferredScheme of PAYMENT_SCHEMES) if (includes) return it; return null
choosePreferredScheme(availableSchemes) ==
    LET hits == {p \in 1..Len(PAYMENT_SCHEMES) : Includes(availableSchemes, PAYMENT_SCHEMES[p])}
    IN IF hits = {} THEN NoScheme
       ELSE Scheme(PAYMENT_SCHEMES[CHOOSE p \in hits : \A q \in hits : p <= q])

-----------------------------------------------------------------------------
(* src/src/lib/faremeter.ts: chooseScheme *)

DefaultScheme == "x-solana-settlement"

\* mutant: the first element is returned without the truthiness/typeof test
chooseSchemeNoGuard(accepts) ==
    IF Len(accepts) = 0 THEN DefaultScheme
    ELSE LET chosen == choosePreferredScheme(accepts)
         IN IF chosen.isNull \/ chosen.v = "" THEN accepts[1].v ELSE chosen.v

\* mutant: no first-available fallback, the default is used instead
chooseSchemeNoFallback(accepts) ==
    IF Len(accepts) = 0 THEN DefaultScheme
    ELSE LET chosen == choosePreferredScheme(accepts)
         IN IF chosen.isNull \/ chosen.v = "" THEN DefaultScheme ELSE chosen.v

chooseScheme(accepts) ==
    IF Len(accepts) = 0
    THEN DefaultScheme
    ELSE LET chosen == choosePreferredScheme(accepts)
         IN IF chosen.isNull \/ chosen.v = ""            \* !chosen
            THEN LET firstAvailable == accepts[1]
                 IN IF Truthy(firstAvailable) /\ IsString(firstAvailable)
                    THEN firstAvailable.v
                    ELSE DefaultScheme
            ELSE chosen.v

-----------------------------------------------------------------------------
(* Strings built character by character *)

RECURSIVE Join(_)
\* the string whose characters are the entries of s
Join(s) == IF s = <<>> THEN "" ELSE Head(s) \o Join(Tail(s))

\* s.substring(0, n) on a sequence of characters
Take(s, n) == SubSeq(s, 1, IF Len(s) < n THEN Len(s) ELSE n)

DecimalDigits == <<"0", "1", "2", "3", "4", "5", "6", "7", "8", "9">>

RECURSIVE ToDecimal(_)
\* template-literal conversion of a non-negative integer: its decimal digits
ToDecimal(n) == IF n < 10 THEN DecimalDigits[n + 1]
                ELSE ToDecimal(n \div 10) \o DecimalDigits[(n % 10) + 1]

-----------------------------------------------------------------------------
(* src/src/config/payments.ts: generateIdempotencyKey.  Date.now() and the   *)
(* digits of Math.random().toString(36) after "0." are inputs of the model.  *)

\* mutant: the parts are concatenated without the '-' before the random suffix
generateIdempotencyKeyNoSeparator(walletAddress, productAsin, timestamp, fraction) ==
    Join(Take(walletAddress, 8)) \o "-" \o productAsin \o "-" \o ToDecimal(timestamp)
        \o Join(Take(fraction, 6))

\* `${walletAddress.substring(0, 8)}-${productAsin}-${timestamp}-${random}`
\* with random = Math.random().toString(36).substring(2, 8)
generateIdempotencyKey(walletAddress, productAsin, timestamp, fraction) ==
    Join(Take(walletAddress, 8)) \o "-" \o productAsin \o "-" \o ToDecimal(timestamp)
        \o "-" \o Join(Take(fraction, 6))

-----------------------------------------------------------------------------
(* src/src/lib/faremeter.ts: signAndSubmit *)

\* the head of the code's 58-character base58 alphabet
chars == <<"1", "2">>

\* the loop appending chars.charAt(Math.floor(Math.random() * chars.length));
\* picks[i] is the index drawn in round i
SignatureOf(picks) == Join([i \in 1..SigLen |-> chars[picks[i]]])

SignaturePicks == [1..SigLen -> 1..Len(chars)]

NoIntent == [scheme |-> "", endpoint |-> "", amount |-> 0, currency |-> "", resource |-> ""]

NoPayment == [success |-> FALSE, signature |-> "", transaction |-> "",
              details |-> [scheme |-> "", amount |-> 0, currency |-> "", walletAddress |-> "",
                           idempotencyKey |-> "", timestamp |-> 0]]

\* the body of signAndSubmit after `await getWallet()` resolved with `wallet`
\* (no walletAddress argument is passed by executeX402Flow)
signAndSubmit(pintent, wallet, timestamp, fraction, picks) ==
    LET walletAddress == wallet
        idempotencyKey == generateIdempotencyKey(walletAddress,
                              IF pintent.resource # "" THEN pintent.resource ELSE pintent.endpoint,
                              timestamp, fraction)
        signature == SignatureOf(picks)
    IN [success |-> TRUE, signature |-> signature, transaction |-> signature,
        details |-> [scheme |-> pintent.scheme, amount |-> pintent.amount,
                     currency |-> pintent.currency, walletAddress |-> Join(walletAddress),
                     idempotencyKey |-> idempotencyKey, timestamp |-> timestamp]]

-----------------------------------------------------------------------------
(* Requests, responses, headers *)

\* { ...base, ...over }: object spread, the later object wins on a shared key
Spread(base, over) ==
    [k \in (DOMAIN base) \cup (DOMAIN over) |-> IF k \in DOMAIN over THEN over[k] ELSE base[k]]

NoHeaders == [k \in {} |-> ""]

HeaderKeys == {"Content-Type", "Authorization", "x-faremeter-payment-id",
               "X-Payment-Signature", "x-payment-signature", "X-Payment-Transaction"}

\* the header name a key of the init.headers object stands for: fetch builds a
\* Headers list from the object, and header names are case-insensitive
HeaderName(k) ==
    CASE k = "Content-Type" -> "content-type"
      [] k = "Authorization" -> "authorization"
      [] k = "X-Payment-Signature" -> "x-payment-signature"
      [] k = "X-Payment-Transaction" -> "x-payment-transaction"
      [] OTHER -> k

\* the values a request carries under a header name
HeaderValues(headers, name) == {headers[k] : k \in {h \in DOMAIN headers : HeaderName(h) = name}}

\* the options.headers objects a caller passes
CallerHeaders ==
    UNION {[K -> {"caller-value"}] : K \in {K \in SUBSET HeaderKeys : Cardinality(K) <= MaxCallerHeaders}}

DefaultMaxRetries == 2

\* options.maxRetries after destructuring: absent (the default), 0 or 5
MaxRetriesValues == {DefaultMaxRetries, 0, 5}

\* method and body of the caller: a GET without body, a POST whose body
\* JSON.stringify turns into Latin-1 text, a POST whose body holds a
\* character btoa rejects
MethodsAndBodies == {<<"GET", "none">>, <<"POST", "latin1">>, <<"POST", "unicode">>}

Endpoints == {"http://localhost:8402/purchase", "http://localhost:8787/purchase"}

InitialStatuses == {200, 402, 404, 500}
RetryStatuses == {200, 402, 500}

Response(id, status) == [id |-> id, status |-> status, bodyUsed |-> FALSE]
NoResponse == [id |-> 0, status |-> 0, bodyUsed |-> FALSE]

NoCall == [endpoint |-> "", method |-> "", headers |-> NoHeaders, body |-> "none", maxRetries |-> 0]

\* outcomes of `await getWallet()`: a keypair, named by its base58 address
Wallets == {<<"7", "x", "K", "X", "t", "g", "2", "C", "W", "8">>}

\* Date.now() and Math.random() as seen by a flow
FlowTimestamps == {11}
FlowFractions == {<<"a">>}

-----------------------------------------------------------------------------
(* JSON bodies.  A property of the body is absent, a non-array value, or an  *)
(* array of entries.  A parsed body is null, a non-object value (number,     *)
(* string, boolean, array: every property read gives undefined) or an object.*)

Absent == [k |-> "absent", v |-> <<>>]
Scalar == [k |-> "scalar", v |-> <<>>]
Arr(s) == [k |-> "array", v |-> s]

\* x && Array.isArray(x): every array is truthy
IsArray(f) == f.k = "array"

JsonNull == [k |-> "null", accepts |-> Absent, payment_methods |-> Absent,
             schemes |-> Absent, amount |-> 0, currency |-> ""]
JsonScalar == [k |-> "scalar", accepts |-> Absent, payment_methods |-> Absent,
               schemes |-> Absent, amount |-> 0, currency |-> ""]
JsonObject(a, pm, sc, amt, cur) ==
    [k |-> "object", accepts |-> a, payment_methods |-> pm, schemes |-> sc,
     amount |-> amt, currency |-> cur]

\* a body text: one that JSON.parse rejects, or the text of a JSON value
BadText == [valid |-> FALSE, json |-> JsonNull]
TextOf(j) == [valid |-> TRUE, json |-> j]
NoText == [valid |-> FALSE, json |-> JsonScalar]

\* entries of an array in a body
BodyEntries == {Str("x-solana-settlement"), Str("foo-scheme"), Str(""),
                Obj("x-ethereum-settlement"), Null}

AcceptsArrays == {Arr(s) : s \in SeqsUpTo(BodyEntries, MaxBodyLen)}
OtherFields == {Absent, Arr(<<>>), Arr(<<Str("foo-scheme")>>), Arr(<<Obj("x-solana-settlement")>>)}
Prices == {<<0, "">>, <<7, "EUR">>}

\* the 402 bodies of the model: every accepts array alone, and every
\* combination of a missing, non-array or empty accepts with the other fields
JsonBodies ==
    {JsonNull, JsonScalar}
    \cup {JsonObject(a, Absent, Absent, pr[1], pr[2]) : a \in AcceptsArrays, pr \in Prices}
    \cup {JsonObject(a, pm, sc, 0, "") :
            a \in {Absent, Scalar, Arr(<<>>)}, pm \in OtherFields, sc \in OtherFields}

BodyTexts == {BadText} \cup {TextOf(j) : j \in JsonBodies}

-----------------------------------------------------------------------------
(* Errors *)

FaremeterError(code, endpoint, status, cause) ==
    [class |-> "FaremeterError", code |-> code, endpoint |-> endpoint,
     status |-> status, cause |-> cause]

\* mutant: the endpoint is left out of the details
EmptyAcceptsErrorNoEndpoint(endpoint) ==
    [class |-> "EmptyAcceptsError", code |-> "EMPTY_ACCEPTS", endpoint |-> "",
     status |-> 0, cause |-> ""]

\* class EmptyAcceptsError extends FaremeterError: code EMPTY_ACCEPTS, details {endpoint}
EmptyAcceptsError(endpoint) ==
    [class |-> "EmptyAcceptsError", code |-> "EMPTY_ACCEPTS", endpoint |-> endpoint,
     status |-> 0, cause |-> ""]

NoError == [class |-> "", code |-> "", endpoint |-> "", status |-> 0, cause |-> ""]

\* error instanceof FaremeterError (EmptyAcceptsError extends FaremeterError)
IsFaremeterError(e) == e.class \in {"FaremeterError", "EmptyAcceptsError"}

\* the catch of signAndSubmit: whatever was thrown becomes SOLANA_PAYMENT_FAILED
SolanaPaymentFailed(cause) == FaremeterError("SOLANA_PAYMENT_FAILED", "", 0, cause)

\* mutant: the catch of the flow wraps every error, a FaremeterError too
FlowCatchWrapAll(e) == FaremeterError("X402_FLOW_FAILED", "", 0, e.cause)

\* the catch of executeX402Flow: a FaremeterError is rethrown as it is,
\* anything else is wrapped as X402_FLOW_FAILED
FlowCatch(e) ==
    IF IsFaremeterError(e) THEN e ELSE FaremeterError("X402_FLOW_FAILED", "", 0, e.cause)

-----------------------------------------------------------------------------
(* executeX402Flow: resolution of the accepts list (faremeter.ts 306-316) *)

Threw(cause) == [threw |-> TRUE, cause |-> cause, list |-> <<>>]
Ok(list) == [threw |-> FALSE, cause |-> "", list |-> list]

\* (a) => a.method || a ; reading a property of null throws
MapEntry(a) == IF a.k = "obj" /\ a.v # "" THEN Str(a.v) ELSE a

\* mutant: payment_methods is consulted before accepts
ResolveFlowAcceptsWrongOrder(d) ==
    IF d.k = "null" THEN Threw("TypeError")
    ELSE IF IsArray(d.payment_methods) /\ Len(d.payment_methods.v) > 0 THEN Ok(d.payment_methods.v)
    ELSE IF IsArray(d.accepts)
         THEN IF \E i \in 1..Len(d.accepts.v) : d.accepts.v[i] = Null
              THEN Threw("TypeError")
              ELSE Ok([i \in 1..Len(d.accepts.v) |-> MapEntry(d.accepts.v[i])])
    ELSE IF IsArray(d.schemes) THEN Ok(d.schemes.v)
    ELSE Ok(<<>>)

ResolveFlowAccepts(d) ==
    IF d.k = "null" THEN Threw("TypeError")         \* acceptsData.accepts of null
    ELSE IF IsArray(d.accepts)
         THEN IF \E i \in 1..Len(d.accepts.v) : d.accepts.v[i] = Null
              THEN Threw("TypeError")
              ELSE Ok([i \in 1..Len(d.accepts.v) |-> MapEntry(d.accepts.v[i])])
    ELSE IF IsArray(d.payment_methods) THEN Ok(d.payment_methods.v)
    ELSE IF IsArray(d.schemes) THEN Ok(d.schemes.v)
    ELSE Ok(<<>>)

-----------------------------------------------------------------------------
(* src/src/lib/faremeter.ts: executeX402Flow, one action per await *)

FlowIdle ==
    /\ pc = "idle"
    /\ call = NoCall
    /\ initialResponse = NoResponse
    /\ responseText = NoText
    /\ flowAccepts = <<>>
    /\ intent = NoIntent
    /\ paymentResult = NoPayment
    /\ requests = <<>>
    /\ signCalls = 0
    /\ result = NoResponse
    /\ error = NoError

\* the init object of both fetch calls, apart from the headers
Request(c, headers) ==
    [url |-> c.endpoint, method |-> c.method, headers |-> headers, body |-> c.body]

\* headers of the first fetch: { 'Content-Type': 'application/json', ...headers }
InitialHeaders(headers) ==
    Spread([k \in {"Content-Type"} |-> "application/json"], headers)

\* mutant: the payment headers are spread after the caller's headers
RetryHeadersProofLast(headers, payment) ==
    Spread(Spread([k \in {"Content-Type"} |-> "application/json"], headers),
           [k \in {"x-faremeter-payment-id", "X-Payment-Signature", "X-Payment-Transaction"} |->
               IF k = "X-Payment-Transaction" THEN payment.transaction ELSE payment.signature])

\* mutant: the transaction is sent under every proof header but the signature one
RetryHeadersNoSignature(headers, payment) ==
    Spread([k \in {"Content-Type", "x-faremeter-payment-id", "X-Payment-Transaction"} |->
               CASE k = "Content-Type" -> "application/json"
                 [] k = "x-faremeter-payment-id" -> payment.signature
                 [] OTHER -> payment.transaction],
           headers)

\* headers of the retry: Content-Type, the three proof headers, then ...headers
RetryHeaders(headers, payment) ==
    Spread([k \in {"Content-Type", "x-faremeter-payment-id", "X-Payment-Signature",
                   "X-Payment-Transaction"} |->
               CASE k = "Content-Type" -> "application/json"
                 [] k = "x-faremeter-payment-id" -> payment.signature     \* signature || ''
                 [] k = "X-Payment-Signature" -> payment.signature
                 [] OTHER -> payment.transaction],
           headers)

\* executeX402Flow(endpoint, options) up to `await fetch(endpoint, ...)`
CallFlow ==
    /\ pc = "idle"
    /\ \E endpoint \in Endpoints, headers \in CallerHeaders,
          mb \in MethodsAndBodies, maxRetries \in MaxRetriesValues :
         /\ call' = [endpoint |-> endpoint, method |-> mb[1], headers |-> headers,
                     body |-> mb[2], maxRetries |-> maxRetries]
         /\ requests' = <<Request(call', InitialHeaders(headers))>>
    /\ pc' = "fetch1"
    /\ UNCHANGED <<initialResponse, responseText, flowAccepts, intent, paymentResult,
                   signCalls, result, error>>

\* mutant: only a 200 passes through without negotiation
NeedsPaymentUnless200(status) == status # 200

\* if (initialResponse.status !== 402) return initialResponse
NeedsPayment(status) == status = 402

\* the first fetch resolves: a status other than 402 is returned as is,
\* a 402 goes on to `await initialResponse.text()`
InitialFetchResolves ==
    /\ pc = "fetch1"
    /\ \E status \in InitialStatuses :
         /\ initialResponse' = [Response(1, status) EXCEPT !.bodyUsed = NeedsPayment(status)]
         /\ IF ~NeedsPayment(status)
            THEN /\ result' = Response(1, status)
                 /\ pc' = "returned"
            ELSE /\ result' = result
                 /\ pc' = "text"
    /\ UNCHANGED <<call, responseText, flowAccepts, intent, paymentResult, requests,
                   signCalls, error>>

\* a rejected await inside the try block: the catch wraps what is not a FaremeterError
RejectWrapped(cause) ==
    /\ error' = FaremeterError("X402_FLOW_FAILED", "", 0, cause)
    /\ pc' = "rejected"

\* the first fetch rejects (network failure)
InitialFetchRejects ==
    /\ pc = "fetch1"
    /\ RejectWrapped("fetch failed")
    /\ UNCHANGED <<call, initialResponse, responseText, flowAccepts, intent, paymentResult,
                   requests, signCalls, result>>

\* reading the body fails
TextRejects ==
    /\ pc = "text"
    /\ RejectWrapped("body read failed")
    /\ UNCHANGED <<call, initialResponse, responseText, flowAccepts, intent, paymentResult,
                   requests, signCalls, result>>

\* step 4 of the flow: the PaymentIntent from the parsed 402 body (acceptsData)
MakeIntent(c, d, scheme) ==
    [scheme |-> scheme, endpoint |-> c.endpoint,
     amount |-> d.amount,                                        \* acceptsData.amount || 0
     currency |-> IF d.currency # "" THEN d.currency ELSE "USDC",
     resource |-> c.endpoint]

\* mutant: the parse failure is thrown as a plain Error, which the outer catch wraps
InvalidResponseErrorPlain == FaremeterError("X402_FLOW_FAILED", "", 0, "Invalid 402 response format")

\* the error thrown when JSON.parse(responseText) throws
InvalidResponseError == FaremeterError("INVALID_402_RESPONSE", "", 0, "")

\* the body text arrives: parse, resolve accepts, choose the scheme, build the
\* intent and call signAndSubmit, which runs to its `await getWallet()`
TextResolves ==
    /\ pc = "text"
    /\ \E text \in BodyTexts :
         LET resolved == ResolveFlowAccepts(text.json)
         IN /\ responseText' = text
            /\ CASE ~text.valid ->
                      /\ error' = InvalidResponseError
                      /\ pc' = "rejected"
                      /\ UNCHANGED <<flowAccepts, intent, signCalls>>
                 [] text.valid /\ resolved.threw ->
                      /\ RejectWrapped(resolved.cause)
                      /\ UNCHANGED <<flowAccepts, intent, signCalls>>
                 [] text.valid /\ ~resolved.threw /\ Len(resolved.list) = 0 ->
                      /\ error' = EmptyAcceptsError(call.endpoint)
                      /\ pc' = "rejected"
                      /\ UNCHANGED <<flowAccepts, intent, signCalls>>
                 [] text.valid /\ ~resolved.threw /\ Len(resolved.list) > 0
                      /\ call.body = "unicode" ->
                      \* btoa(JSON.stringify(body)) throws InvalidCharacterError
                      /\ flowAccepts' = resolved.list
                      /\ RejectWrapped("InvalidCharacterError")
                      /\ UNCHANGED <<intent, signCalls>>
                 [] OTHER ->
                      /\ flowAccepts' = resolved.list
                      /\ intent' = MakeIntent(call, text.json, chooseScheme(resolved.list))
                      /\ signCalls' = signCalls + 1
                      /\ pc' = "wallet"
                      /\ error' = error
    /\ UNCHANGED <<call, initialResponse, paymentResult, requests, result>>

\* mutant: the failure of the signer is swallowed and the retry is sent without proof
GetWalletRejectsRetryAnyway ==
    /\ pc = "wallet"
    /\ requests' = Append(requests, Request(call, RetryHeaders(call.headers, NoPayment)))
    /\ pc' = "fetch2"
    /\ UNCHANGED <<call, initialResponse, responseText, flowAccepts, intent, paymentResult,
                   signCalls, result, error>>

\* getWallet rejects inside signAndSubmit: its catch throws SOLANA_PAYMENT_FAILED,
\* which the flow's catch rethrows unchanged
GetWalletRejects ==
    /\ pc = "wallet"
    /\ error' = FlowCatch(SolanaPaymentFailed("wallet"))
    /\ pc' = "rejected"
    /\ UNCHANGED <<call, initialResponse, responseText, flowAccepts, intent, paymentResult,
                   requests, signCalls, result>>

\* getWallet resolves: signAndSubmit returns, and the flow issues the retry
GetWalletResolves ==
    /\ pc = "wallet"
    /\ \E wallet \in Wallets, timestamp \in FlowTimestamps, fraction \in FlowFractions,
          picks \in SignaturePicks :
         /\ paymentResult' = signAndSubmit(intent, wallet, timestamp, fraction, picks)
         /\ IF ~paymentResult'.success
            THEN /\ error' = FaremeterError("PAYMENT_FAILED", "", 0, "")
                 /\ pc' = "rejected"
                 /\ requests' = requests
            ELSE /\ requests' = Append(requests,
                                       Request(call, RetryHeaders(call.headers, paymentResult')))
                 /\ pc' = "fetch2"
                 /\ error' = error
    /\ UNCHANGED <<call, initialResponse, responseText, flowAccepts, intent, signCalls, result>>

\* mutant: a retry answered 402 is negotiated again while maxRetries allows
RetryFetchResolvesLoop ==
    /\ pc = "fetch2"
    /\ \E status \in RetryStatuses :
         IF status = 402 /\ Len(requests) <= call.maxRetries
         THEN /\ initialResponse' = [Response(Len(requests), status) EXCEPT !.bodyUsed = TRUE]
              /\ pc' = "text"
              /\ result' = result
         ELSE /\ result' = Response(2, status)
              /\ pc' = "returned"
              /\ initialResponse' = initialResponse
    /\ UNCHANGED <<call, responseText, flowAccepts, intent, paymentResult,
                   requests, signCalls, error>>

\* the retry resolves: its response is returned whatever its status
RetryFetchResolves ==
    /\ pc = "fetch2"
    /\ \E status \in RetryStatuses : result' = Response(2, status)
    /\ pc' = "returned"
    /\ UNCHANGED <<call, initialResponse, responseText, flowAccepts, intent, paymentResult,
                   requests, signCalls, error>>

\* the retry rejects (network failure)
RetryFetchRejects ==
    /\ pc = "fetch2"
    /\ RejectWrapped("fetch failed")
    /\ UNCHANGED <<call, initialResponse, responseText, flowAccepts, intent, paymentResult,
                   requests, signCalls, result>>

ChooseIdle ==
    /\ chAccepts = <<>>
    /\ chResult = [done |-> FALSE, threw |-> FALSE, value |-> ""]

NoAcceptsHeader == [accepts |-> Absent, payment_methods |-> Absent, schemes |-> Absent,
                    amount |-> 0, currency |-> ""]

AcceptsIdle ==
    /\ faPc = "idle"
    /\ faEndpoint = ""
    /\ faResponse = NoResponse
    /\ faData = NoText
    /\ faResult = NoAcceptsHeader
    /\ faError = NoError

NoKeyCall == [called |-> FALSE, walletAddress |-> <<>>, productAsin |-> "", timestamp |-> 0,
              fraction |-> <<>>, key |-> ""]

KeyIdle ==
    /\ keyPrev = NoKeyCall
    /\ keyLast = NoKeyCall

-----------------------------------------------------------------------------
(* State of the application around the library, before anything has run *)

\* handlePurchase invocations, numbered in the order of the clicks
Invocations == 1..MaxAttempts

NoPageResponse == [ok |-> FALSE, status |-> 0, body |-> ""]

\* useState<PurchaseResult | null>(null)
NullResult == [isNull |-> TRUE, orderId |-> "", error |-> "", details |-> ""]

\* useState('B00EXAMPLE'), useState(1), useState(false), useState(null)
PageIdle ==
    /\ pagePc = [i \in Invocations |-> "none"]
    /\ sku = "B00EXAMPLE"
    /\ purchasing = FALSE
    /\ pageResult = NullResult
    /\ pageResponse = [i \in Invocations |-> NoPageResponse]

NoToolCall == [tool |-> "", sku |-> "", confirm |-> "absent"]

\* product.price as the proxy sends it: a number, or an object {amount, currency}
PriceNumber(n) == [k |-> "number", amount |-> n]
PriceObject(n) == [k |-> "object", amount |-> n]

\* productCache.get(sku) of an ASIN that is not cached (undefined)
NoProduct == [asin |-> "", signed |-> FALSE, price |-> PriceNumber(0)]

\* purchaseAmazonProduct before checkWalletBalance has returned
NoBalance == [success |-> FALSE, USDC |-> 0]

NoToolResult == [returned |-> FALSE, success |-> FALSE, needsConfirmation |-> FALSE,
                 error |-> ""]

\* new ToolExecutor(): private productCache = new Map()
ToolIdle ==
    /\ toolPc = "idle"
    /\ toolCall = NoToolCall
    /\ productCache = [a \in {} |-> NoProduct]
    /\ product = NoProduct
    /\ toolRequests = <<>>
    /\ toolResponse = NoResponse
    /\ toolResult = NoToolResult
    /\ toolCalls = 0
    /\ balanceResult = NoBalance
    /\ searchLog = <<>>

\* let cachedWallet: Keypair | null = null
NoKeypair == ""

Callers == 1..NumCallers

\* a process that has not loaded the wallet: no env secret, no wallet file
WalletIdle ==
    /\ cachedWallet = NoKeypair
    /\ walletEnv = "absent"
    /\ walletFile = "absent"
    /\ generated = 0
    /\ fileWrites = 0
    /\ callers = [c \in Callers |-> [pc |-> "idle", got |-> NoKeypair]]

Flows == 1..NumFlows

\* what a fetch gave: a rejection or a response status
NoFetch == [failed |-> FALSE, status |-> 0]

\* what the awaits of a flow received: the server's answers and the signer's output
NoInputs == [fetch1 |-> NoFetch, textFailed |-> FALSE, text |-> NoText,
             signerThrew |-> FALSE, payment |-> NoPayment, fetch2 |-> NoFetch]

\* an executeX402Flow invocation that has not been called
IdleFlow == [pc |-> "idle", call |-> NoCall, inputs |-> NoInputs, flowAccepts |-> <<>>,
             intent |-> NoIntent, paymentResult |-> NoPayment, requests |-> <<>>,
             signCalls |-> 0, result |-> NoResponse, error |-> NoError]

\* const defaultBalance: DevBalance = { SOL: 0, USDC: 0 }
DefaultBalance == [SOL |-> 0, USDC |-> 0]

PairIdle ==
    /\ flows = [f \in Flows |-> IdleFlow]
    /\ devBalance = DefaultBalance

Searches == 1..NumSearches

\* a searchAmazonProducts call that has not been made
IdleSearch == [pc |-> "idle", query |-> ""]

\* a search that has returned: its locals are gone
DoneSearch == [pc |-> "done", query |-> ""]

SearchIdle == searches = [s \in Searches |-> IdleSearch]

\* the outcome of a resolver that has not run
NotResolved == [done |-> FALSE, threw |-> FALSE, cause |-> "", list |-> <<>>]

ResolveIdle ==
    /\ acceptsData = NoText
    /\ fetchList = NotResolved
    /\ flowList = NotResolved

Funders == 1..NumFunders

\* a fundDevWallet call that has not been made
IdleFunder == [pc |-> "idle", amount |-> 0, currency |-> "", balance |-> DefaultBalance,
               saved |-> FALSE]

FundIdle ==
    /\ funders = [f \in Funders |-> IdleFunder]
    /\ devFile = "absent"
    /\ startBalance = DefaultBalance

\* no checkSystemHealth invocation is running
NoCheck == [pc |-> "none", results |-> <<>>]

\* the first render of HealthBanner: useState(false), useState(false),
\* useState([]), useState(true), useState(true)
BannerIdle ==
    /\ isVisible = FALSE
    /\ isDismissed = FALSE
    /\ services = <<>>
    /\ configValid = TRUE
    /\ isChecking = TRUE
    /\ check = NoCheck
    /\ checksRun = 0

ChatIdle ==
    /\ chatPc = "idle"
    /\ toolUses = <<>>
    /\ toolResults = <<>>
    /\ rounds = 0

MoreIdle ==
    /\ SearchIdle
    /\ ResolveIdle
    /\ FundIdle
    /\ BannerIdle
    /\ ChatIdle

AppIdle ==
    /\ PageIdle
    /\ ToolIdle
    /\ WalletIdle
    /\ PairIdle
    /\ MoreIdle

Init ==
    /\ FlowIdle
    /\ ChooseIdle
    /\ AcceptsIdle
    /\ KeyIdle
    /\ AppIdle

Next ==
    \/ (CallFlow /\ UNCHANGED <<chooseVars, acceptsVars, keyVars, appVars>>)
    \/ (InitialFetchResolves /\ UNCHANGED <<chooseVars, acceptsVars, keyVars, appVars>>)
    \/ (InitialFetchRejects /\ UNCHANGED <<chooseVars, acceptsVars, keyVars, appVars>>)
    \/ (TextResolves /\ UNCHANGED <<chooseVars, acceptsVars, keyVars, appVars>>)
    \/ (TextRejects /\ UNCHANGED <<chooseVars, acceptsVars, keyVars, appVars>>)
    \/ (GetWalletResolves /\ UNCHANGED <<chooseVars, acceptsVars, keyVars, appVars>>)
    \/ (GetWalletRejects /\ UNCHANGED <<chooseVars, acceptsVars, keyVars, appVars>>)
    \/ (RetryFetchResolves /\ UNCHANGED <<chooseVars, acceptsVars, keyVars, appVars>>)
    \/ (RetryFetchRejects /\ UNCHANGED <<chooseVars, acceptsVars, keyVars, appVars>>)

Spec == Init /\ [][Next]_vars

-----------------------------------------------------------------------------
(* Direct calls of chooseScheme (diagnostics page, testSchemeSelection) *)

\* strings a caller may put in the list
ChooseStrings == {"x-solana-settlement", "x-ethereum-settlement", "x-bitcoin-settlement",
                  "foo-scheme", "unknown-scheme-1", ""}

StringLists == SeqsUpTo({Str(s) : s \in ChooseStrings}, MaxAcceptsLen)

NoOutcome == [done |-> FALSE, threw |-> FALSE, value |-> ""]

InitChoose ==
    /\ chAccepts \in StringLists
    /\ chResult = NoOutcome
    /\ FlowIdle
    /\ AcceptsIdle
    /\ KeyIdle
    /\ AppIdle

\* const chosen = chooseScheme(testCase.accepts)
CallChooseScheme ==
    /\ ~chResult.done
    /\ chResult' = [done |-> TRUE, threw |-> FALSE, value |-> chooseScheme(chAccepts)]
    /\ UNCHANGED chAccepts

\* the next test case
NextTestCase ==
    /\ chResult.done
    /\ chAccepts' \in StringLists
    /\ chResult' = NoOutcome

NextChoose ==
    \/ (CallChooseScheme /\ UNCHANGED <<flowVars, acceptsVars, keyVars, appVars>>)
    \/ (NextTestCase /\ UNCHANGED <<flowVars, acceptsVars, keyVars, appVars>>)

SpecChoose == InitChoose /\ [][NextChoose]_vars

-----------------------------------------------------------------------------
(* src/src/lib/faremeter.ts: fetchAccepts, one action per await *)

\* mutant: an empty array is passed over and the next field is consulted
ResolveFetchAcceptsSkipEmpty(d) ==
    IF d.k = "null" THEN Threw("TypeError")
    ELSE IF IsArray(d.accepts) /\ Len(d.accepts.v) > 0 THEN Ok(d.accepts.v)
    ELSE IF IsArray(d.payment_methods) /\ Len(d.payment_methods.v) > 0 THEN Ok(d.payment_methods.v)
    ELSE IF IsArray(d.schemes) THEN Ok(d.schemes.v)
    ELSE Ok(<<>>)

\* the accepts list of fetchAccepts (faremeter.ts 106-118): entries are kept as they are
ResolveFetchAccepts(d) ==
    IF d.k = "null" THEN Threw("TypeError")         \* acceptsData.accepts of null
    ELSE IF IsArray(d.accepts) THEN Ok(d.accepts.v)
    ELSE IF IsArray(d.payment_methods) THEN Ok(d.payment_methods.v)
    ELSE IF IsArray(d.schemes) THEN Ok(d.schemes.v)
    ELSE Ok(<<>>)

\* return { accepts, ...acceptsData }: a property `accepts` of the body
\* overwrites the resolved list
AcceptsHeader(list, d) ==
    [accepts |-> IF d.accepts.k # "absent" THEN d.accepts ELSE Arr(list),
     payment_methods |-> d.payment_methods, schemes |-> d.schemes,
     amount |-> d.amount, currency |-> d.currency]

\* mutant: the catch rethrows what it caught instead of wrapping it
FetchAcceptsFailedPlain(endpoint, cause) ==
    [class |-> "Error", code |-> "", endpoint |-> "", status |-> 0, cause |-> cause]

\* the catch of fetchAccepts wraps what is not a FaremeterError
FetchAcceptsFailed(endpoint, cause) ==
    FaremeterError("FETCH_ACCEPTS_FAILED", endpoint, 0, cause)

\* fetchAccepts(endpoint) up to `await fetch(endpoint, ...)`
CallFetchAccepts ==
    /\ faPc = "idle"
    /\ faEndpoint' \in Endpoints
    /\ faPc' = "fetch"
    /\ UNCHANGED <<faResponse, faData, faResult, faError>>

\* mutant: every status below 500 other than 402 counts as "no payment required"
FetchAcceptsResolvesLenient ==
    /\ faPc = "fetch"
    /\ \E status \in InitialStatuses :
         /\ faResponse' = [Response(1, status) EXCEPT !.bodyUsed = (status = 402)]
         /\ CASE status = 402 ->
                   /\ faPc' = "json"
                   /\ UNCHANGED <<faResult, faError>>
              [] status # 402 /\ status < 500 ->
                   /\ faPc' = "returned"
                   /\ faResult' = [NoAcceptsHeader EXCEPT !.accepts = Arr(<<>>)]
                   /\ faError' = faError
              [] OTHER ->
                   /\ faPc' = "rejected"
                   /\ faError' = FaremeterError("UNEXPECTED_STATUS", faEndpoint, status, "")
                   /\ faResult' = faResult
    /\ UNCHANGED <<faEndpoint, faData>>

\* the fetch resolves: 402 goes on to `await response.json()`, 200 returns
\* { accepts: [] }, any other status throws UNEXPECTED_STATUS
FetchAcceptsResolves ==
    /\ faPc = "fetch"
    /\ \E status \in InitialStatuses :
         /\ faResponse' = [Response(1, status) EXCEPT !.bodyUsed = (status = 402)]
         /\ CASE status = 402 ->
                   /\ faPc' = "json"
                   /\ UNCHANGED <<faResult, faError>>
              [] status = 200 ->
                   /\ faPc' = "returned"
                   /\ faResult' = [NoAcceptsHeader EXCEPT !.accepts = Arr(<<>>)]
                   /\ faError' = faError
              [] OTHER ->
                   /\ faPc' = "rejected"
                   /\ faError' = FaremeterError("UNEXPECTED_STATUS", faEndpoint, status, "")
                   /\ faResult' = faResult
    /\ UNCHANGED <<faEndpoint, faData>>

\* the fetch rejects (network failure)
FetchAcceptsRejects ==
    /\ faPc = "fetch"
    /\ faPc' = "rejected"
    /\ faError' = FetchAcceptsFailed(faEndpoint, "fetch failed")
    /\ UNCHANGED <<faEndpoint, faResponse, faData, faResult>>

\* response.json() resolves or rejects: a body that is not JSON rejects
JsonSettles ==
    /\ faPc = "json"
    /\ \E text \in BodyTexts :
         LET resolved == ResolveFetchAccepts(text.json)
         IN /\ faData' = text
            /\ CASE ~text.valid ->
                      /\ faPc' = "rejected"
                      /\ faError' = FetchAcceptsFailed(faEndpoint, "SyntaxError")
                      /\ faResult' = faResult
                 [] text.valid /\ resolved.threw ->
                      /\ faPc' = "rejected"
                      /\ faError' = FetchAcceptsFailed(faEndpoint, resolved.cause)
                      /\ faResult' = faResult
                 [] text.valid /\ ~resolved.threw /\ Len(resolved.list) = 0 ->
                      /\ faPc' = "rejected"
                      /\ faError' = EmptyAcceptsError(faEndpoint)
                      /\ faResult' = faResult
                 [] OTHER ->
                      /\ faPc' = "returned"
                      /\ faResult' = AcceptsHeader(resolved.list, text.json)
                      /\ faError' = faError
    /\ UNCHANGED <<faEndpoint, faResponse>>

InitAccepts ==
    /\ FlowIdle
    /\ ChooseIdle
    /\ AcceptsIdle
    /\ KeyIdle
    /\ AppIdle

NextAccepts ==
    \/ (CallFetchAccepts /\ UNCHANGED <<flowVars, chooseVars, keyVars, appVars>>)
    \/ (FetchAcceptsResolves /\ UNCHANGED <<flowVars, chooseVars, keyVars, appVars>>)
    \/ (FetchAcceptsRejects /\ UNCHANGED <<flowVars, chooseVars, keyVars, appVars>>)
    \/ (JsonSettles /\ UNCHANGED <<flowVars, chooseVars, keyVars, appVars>>)

SpecAccepts == InitAccepts /\ [][NextAccepts]_vars

-----------------------------------------------------------------------------
(* A caller of the library: one call of executeX402Flow (signAndSubmit runs  *)
(* inside it) or one call of fetchAccepts                                    *)

InitErrors ==
    /\ FlowIdle
    /\ ChooseIdle
    /\ AcceptsIdle
    /\ KeyIdle
    /\ AppIdle

NextErrors ==
    \/ (CallFlow /\ faPc = "idle" /\ UNCHANGED <<chooseVars, acceptsVars, keyVars, appVars>>)
    \/ (InitialFetchResolves /\ UNCHANGED <<chooseVars, acceptsVars, keyVars, appVars>>)
    \/ (InitialFetchRejects /\ UNCHANGED <<chooseVars, acceptsVars, keyVars, appVars>>)
    \/ (TextResolves /\ UNCHANGED <<chooseVars, acceptsVars, keyVars, appVars>>)
    \/ (TextRejects /\ UNCHANGED <<chooseVars, acceptsVars, keyVars, appVars>>)
    \/ (GetWalletResolves /\ UNCHANGED <<chooseVars, acceptsVars, keyVars, appVars>>)
    \/ (GetWalletRejects /\ UNCHANGED <<chooseVars, acceptsVars, keyVars, appVars>>)
    \/ (RetryFetchResolves /\ UNCHANGED <<chooseVars, acceptsVars, keyVars, appVars>>)
    \/ (RetryFetchRejects /\ UNCHANGED <<chooseVars, acceptsVars, keyVars, appVars>>)
    \/ (CallFetchAccepts /\ pc = "idle" /\ UNCHANGED <<flowVars, chooseVars, keyVars, appVars>>)
    \/ (FetchAcceptsResolves /\ UNCHANGED <<flowVars, chooseVars, keyVars, appVars>>)
    \/ (FetchAcceptsRejects /\ UNCHANGED <<flowVars, chooseVars, keyVars, appVars>>)
    \/ (JsonSettles /\ UNCHANGED <<flowVars, chooseVars, keyVars, appVars>>)

SpecErrors == InitErrors /\ [][NextErrors]_vars

-----------------------------------------------------------------------------
(* executeX402Flow against a payment proxy that answers the initial request  *)
(* and never answers the retry: the steps left are those of the flow itself  *)
(* and the settled awaits before the retry.  The flow arms no timer and      *)
(* passes no AbortSignal to fetch, so no step of its own ends a pending      *)
(* await.                                                                    *)

InitUnanswered ==
    /\ FlowIdle
    /\ ChooseIdle
    /\ AcceptsIdle
    /\ KeyIdle
    /\ AppIdle

NextUnanswered ==
    \/ (CallFlow /\ UNCHANGED <<chooseVars, acceptsVars, keyVars, appVars>>)
    \/ (InitialFetchResolves /\ UNCHANGED <<chooseVars, acceptsVars, keyVars, appVars>>)
    \/ (InitialFetchRejects /\ UNCHANGED <<chooseVars, acceptsVars, keyVars, appVars>>)
    \/ (TextResolves /\ UNCHANGED <<chooseVars, acceptsVars, keyVars, appVars>>)
    \/ (TextRejects /\ UNCHANGED <<chooseVars, acceptsVars, keyVars, appVars>>)
    \/ (GetWalletResolves /\ UNCHANGED <<chooseVars, acceptsVars, keyVars, appVars>>)
    \/ (GetWalletRejects /\ UNCHANGED <<chooseVars, acceptsVars, keyVars, appVars>>)

SpecUnanswered == InitUnanswered /\ [][NextUnanswered]_vars

-----------------------------------------------------------------------------
(* Calls of generateIdempotencyKey *)

\* wallet addresses (base58 strings, as sequences of characters)
KeyWallets == {<<"7", "x", "K", "X", "t", "g", "2", "C", "W", "8">>,
               <<"7", "x", "K", "X", "t", "g", "2", "C", "Z", "9">>,
               <<"A", "b">>}

\* the productAsin argument: signAndSubmit passes intent.resource || intent.endpoint
KeyResources == {"B0-1", "http://localhost:8402/purchase"}

Timestamps == 0..MaxNow

\* base-36 digits of Math.random() after "0.": the short ones, and one longer
\* than the six characters substring(2, 8) keeps
RandomFractions == SeqsUpTo({"1", "a"}, MaxFracLen) \cup {<<"1", "a", "1", "a", "1", "a", "1">>}

InitKey ==
    /\ FlowIdle
    /\ ChooseIdle
    /\ AcceptsIdle
    /\ KeyIdle
    /\ AppIdle

\* const idempotencyKey = generateIdempotencyKey(walletAddress, resource);
\* a run makes two calls, the pair the properties compare
CallGenerateIdempotencyKey ==
    /\ ~keyPrev.called
    /\ \E walletAddress \in KeyWallets, productAsin \in KeyResources,
          timestamp \in Timestamps, fraction \in RandomFractions :
         keyLast' = [called |-> TRUE, walletAddress |-> walletAddress,
                     productAsin |-> productAsin, timestamp |-> timestamp,
                     fraction |-> fraction,
                     key |-> generateIdempotencyKey(walletAddress, productAsin, timestamp, fraction)]
    /\ keyPrev' = keyLast

NextKey == CallGenerateIdempotencyKey /\ UNCHANGED <<flowVars, chooseVars, acceptsVars, appVars>>

SpecKey == InitKey /\ [][NextKey]_vars

-----------------------------------------------------------------------------
(* src/src/app/demos/amazon/page.tsx: AmazonDemoPage, handlePurchase *)

\* values typed into the ASIN field
PageSkus == {"B00EXAMPLE", "B01MS1PMML", "", " "}

\* sku.trim() on the values of PageSkus
Trim(s) == IF s = " " THEN "" ELSE s

\* status of the response of /api/amazon/purchase
PageStatuses == {200, 400, 500}

\* response.ok
IsOk(status) == status \in 200..299

\* bodies of the response: text that is not JSON, the JSON value null, the
\* order the proxy returned, {error, details}, {}
PageBodies == {"invalid", "null", "order", "error", "empty"}

\* disabled={purchasing || !sku.trim()}
ButtonDisabled == purchasing \/ Trim(sku) = ""

\* handlePurchase invocations that are suspended at an await
Running == Cardinality({i \in Invocations : pagePc[i] \in {"fetch", "json"}})

\* handlePurchase invocations that got past the sku test
Attempts == Cardinality({i \in Invocations : pagePc[i] # "none"})

\* the result set by the catch block
NetworkError(message) ==
    [isNull |-> FALSE, orderId |-> "", error |-> "Network error occurred", details |-> message]

\* what setResult receives once response.json() settled with `body`
ResultOf(ok, body) ==
    CASE body = "invalid" -> NetworkError("SyntaxError")
      [] ok /\ body = "null" -> NullResult                      \* setResult(data), data null
      [] ok /\ body = "order" ->
            [isNull |-> FALSE, orderId |-> "order-1", error |-> "", details |-> ""]
      [] ok /\ body = "error" ->
            [isNull |-> FALSE, orderId |-> "", error |-> "upstream", details |-> "text"]
      [] ok /\ body = "empty" ->
            [isNull |-> FALSE, orderId |-> "", error |-> "", details |-> ""]
      [] ~ok /\ body = "null" -> NetworkError("TypeError")       \* data.error of null
      [] ~ok /\ body = "error" ->
            [isNull |-> FALSE, orderId |-> "", error |-> "upstream", details |-> "text"]
      [] OTHER ->
            [isNull |-> FALSE, orderId |-> "", error |-> "Purchase failed", details |-> ""]

\* onChange={(e) => setSku(e.target.value)}
ChangeSku ==
    /\ sku' \in PageSkus \ {sku}
    /\ UNCHANGED <<pagePc, purchasing, pageResult, pageResponse>>

\* a click on the enabled button: handlePurchase up to `await fetch(...)`
ClickPurchase ==
    /\ ~ButtonDisabled
    /\ Attempts < MaxAttempts
    /\ LET i == Attempts + 1
       IN IF Trim(sku) = ""
          THEN UNCHANGED <<pagePc, purchasing, pageResult>>     \* if (!sku.trim()) return
          ELSE /\ purchasing' = TRUE
               /\ pageResult' = NullResult
               /\ pagePc' = [pagePc EXCEPT ![i] = "fetch"]
    /\ UNCHANGED <<sku, pageResponse>>

\* the fetch resolves: handlePurchase goes on to `await response.json()`
PageFetchResolves ==
    \E i \in Invocations, status \in PageStatuses :
        /\ pagePc[i] = "fetch"
        /\ pageResponse' = [pageResponse EXCEPT ![i] =
                               [ok |-> IsOk(status), status |-> status, body |-> ""]]
        /\ pagePc' = [pagePc EXCEPT ![i] = "json"]
        /\ UNCHANGED <<sku, purchasing, pageResult>>

\* the fetch rejects: the catch sets the result, then setPurchasing(false)
PageFetchRejects ==
    \E i \in Invocations :
        /\ pagePc[i] = "fetch"
        /\ pageResult' = NetworkError("fetch failed")
        /\ purchasing' = FALSE
        /\ pagePc' = [pagePc EXCEPT ![i] = "done"]
        /\ UNCHANGED <<sku, pageResponse>>

\* response.json() settles: setResult, then setPurchasing(false)
PageJsonSettles ==
    \E i \in Invocations, body \in PageBodies :
        /\ pagePc[i] = "json"
        /\ pageResponse' = [pageResponse EXCEPT ![i].body = body]
        /\ pageResult' = ResultOf(pageResponse[i].ok, body)
        /\ purchasing' = FALSE
        /\ pagePc' = [pagePc EXCEPT ![i] = "done"]
        /\ UNCHANGED sku

InitPage ==
    /\ FlowIdle
    /\ ChooseIdle
    /\ AcceptsIdle
    /\ KeyIdle
    /\ AppIdle

NextPage ==
    \/ (ChangeSku /\ UNCHANGED <<libVars, toolVars, walletVars, pairVars, moreVars>>)
    \/ (ClickPurchase /\ UNCHANGED <<libVars, toolVars, walletVars, pairVars, moreVars>>)
    \/ (PageFetchResolves /\ UNCHANGED <<libVars, toolVars, walletVars, pairVars, moreVars>>)
    \/ (PageFetchRejects /\ UNCHANGED <<libVars, toolVars, walletVars, pairVars, moreVars>>)
    \/ (PageJsonSettles /\ UNCHANGED <<libVars, toolVars, walletVars, pairVars, moreVars>>)

SpecPage == InitPage /\ [][NextPage]_vars

-----------------------------------------------------------------------------
(* src/src/lib/tool-executor.ts: ToolExecutor, one action per await *)

\* ASINs a tool call names
ToolSkus == {"B00EXAMPLE", "B0UNLISTED"}

\* parameters.confirm as the model sends it
ConfirmValues == {"true", "false", "absent"}

\* mutant: a call without the parameter counts as confirmed
ConfirmedUnlessFalse(c) == c # "false"

\* the argument `confirm`: parameters.confirm || false
Confirmed(c) == c = "true"

\* `${API_BASE}/wallet`, `${AMAZON_PROXY_URL}/products`, `${PAYMENT_PROXY_URL}/purchase`
WalletUrl == "http://localhost:3001/api/wallet"
SearchUrl == "http://localhost:8787/products"
PurchaseUrl == "http://localhost:8787/purchase"

\* product.price of the listed items, and the quantity of a call
ItemPrice == 20
Quantity == 1

\* balances.USDC of the wallet API
Balances == {0, 100}

\* an entry of data.products after the transformation: signed when it carries
\* productBlob and signature; `...product` comes last in the object literal, so
\* `price` is product.price as sent, not the number computed above it
Item(asin, signed, price) == [asin |-> asin, signed |-> signed, price |-> price]

\* unitPrice * quantity: an object converts to NaN
Times(price, quantity) ==
    IF price.k = "number" THEN [nan |-> FALSE, v |-> price.amount * quantity]
    ELSE [nan |-> TRUE, v |-> 0]

\* usdcBalance < totalPrice: every comparison with NaN is false
LessThan(balance, total) == ~total.nan /\ balance < total.v

\* what the search fetch gives for a query: a failure (fetch rejects, status
\* not ok, body not JSON) or the list data.products
SearchOutcomes(query) ==
    {[failed |-> TRUE, products |-> <<>>]} \cup
    {[failed |-> FALSE, products |-> l] :
        l \in {<<>>,
               <<Item(query, TRUE, PriceNumber(ItemPrice))>>,
               <<Item(query, TRUE, PriceObject(ItemPrice))>>,
               <<Item(query, FALSE, PriceNumber(ItemPrice))>>,
               <<Item("B0OTHER", TRUE, PriceNumber(ItemPrice)),
                 Item(query, TRUE, PriceNumber(ItemPrice))>>,
               <<Item("B0OTHER", TRUE, PriceNumber(ItemPrice))>>,
               <<Item("", TRUE, PriceNumber(ItemPrice))>>}}

\* mutant: an ASIN that is cached keeps its entry
CacheAfterFirstWins(cache, products) ==
    LET cached == {i \in 1..Len(products) : products[i].asin # "" /\ products[i].signed}
    IN [a \in (DOMAIN cache) \cup {products[i].asin : i \in cached} |->
           IF a \in DOMAIN cache THEN cache[a]
           ELSE products[CHOOSE i \in cached :
                             /\ products[i].asin = a
                             /\ \A j \in cached : products[j].asin = a => j <= i]]

\* this.productCache.set(product.asin, transformedProduct) for every signed
\* entry, in the order of the list
CacheAfter(cache, products) ==
    LET cached == {i \in 1..Len(products) : products[i].asin # "" /\ products[i].signed}
    IN [a \in (DOMAIN cache) \cup {products[i].asin : i \in cached} |->
           IF \E i \in cached : products[i].asin = a
           THEN products[CHOOSE i \in cached :
                             /\ products[i].asin = a
                             /\ \A j \in cached : products[j].asin = a => j <= i]
           ELSE cache[a]]

\* searchResult.data.products.find((p) => p.asin === sku)
Find(products, asin) ==
    IF \E i \in 1..Len(products) : products[i].asin = asin
    THEN products[CHOOSE i \in 1..Len(products) :
                      /\ products[i].asin = asin
                      /\ \A j \in 1..Len(products) : products[j].asin = asin => i <= j]
    ELSE NoProduct

\* return { success: false, error }
Failure(message) ==
    [returned |-> TRUE, success |-> FALSE, needsConfirmation |-> FALSE, error |-> message]

\* return { success: true, ... }
Success(needsConfirmation) ==
    [returned |-> TRUE, success |-> TRUE, needsConfirmation |-> needsConfirmation, error |-> ""]

\* executeToolCall('search_amazon_products', {query}) up to the fetch
CallSearchAmazonProducts ==
    /\ toolPc = "idle"
    /\ toolCalls < MaxToolCalls
    /\ \E query \in ToolSkus :
         toolCall' = [tool |-> "search_amazon_products", sku |-> query, confirm |-> "absent"]
    /\ toolRequests' = <<SearchUrl>>
    /\ toolPc' = "search"
    /\ toolCalls' = toolCalls + 1
    /\ toolResult' = NoToolResult
    /\ toolResponse' = NoResponse
    /\ product' = NoProduct
    /\ balanceResult' = NoBalance
    /\ UNCHANGED <<productCache, searchLog>>

\* purchaseAmazonProduct once `product` is known: the signed data is required,
\* then checkWalletBalance is awaited
WithProduct(p, requested) ==
    IF ~p.signed
    THEN /\ toolResult' = Failure("Missing signed product data")
         /\ toolPc' = "idle"
         /\ toolRequests' = requested
    ELSE /\ toolResult' = NoToolResult
         /\ toolPc' = "wallet"
         /\ toolRequests' = Append(requested, WalletUrl)

\* executeToolCall('purchase_amazon_product', {sku, confirm}) up to its first
\* await: the fallback search when the product is not cached, else the
\* balance check (every test ASIN is eligible, so line 231 never returns)
CallPurchaseAmazonProduct ==
    /\ toolPc = "idle"
    /\ toolCalls < MaxToolCalls
    /\ toolCalls' = toolCalls + 1
    /\ toolResponse' = NoResponse
    /\ \E asin \in ToolSkus, confirm \in ConfirmValues :
         /\ toolCall' = [tool |-> "purchase_amazon_product", sku |-> asin, confirm |-> confirm]
         /\ IF asin \in DOMAIN productCache
            THEN /\ product' = productCache[asin]
                 /\ WithProduct(productCache[asin], <<>>)
            ELSE /\ product' = NoProduct
                 /\ toolRequests' = <<SearchUrl>>
                 /\ toolPc' = "search"
                 /\ toolResult' = NoToolResult
    /\ balanceResult' = NoBalance
    /\ UNCHANGED <<productCache, searchLog>>

\* the search fetch settles: searchAmazonProducts returns, to executeToolCall
\* or to the fallback of purchaseAmazonProduct
SearchSettles ==
    /\ toolPc = "search"
    /\ \E outcome \in SearchOutcomes(toolCall.sku) :
         LET found == Find(outcome.products, toolCall.sku)
         IN /\ productCache' = CacheAfter(productCache, outcome.products)
            /\ searchLog' = IF outcome.failed THEN searchLog
                                              ELSE Append(searchLog, outcome.products)
            /\ CASE toolCall.tool = "search_amazon_products" ->
                      /\ toolResult' = IF outcome.failed THEN Failure("Product search failed")
                                                         ELSE Success(FALSE)
                      /\ toolPc' = "idle"
                      /\ UNCHANGED <<product, toolRequests>>
                 [] toolCall.tool # "search_amazon_products"
                      /\ (outcome.failed \/ Len(outcome.products) = 0) ->
                      /\ toolResult' = Failure("not found")
                      /\ toolPc' = "idle"
                      /\ UNCHANGED <<product, toolRequests>>
                 [] toolCall.tool # "search_amazon_products"
                      /\ ~outcome.failed /\ Len(outcome.products) > 0
                      /\ found = NoProduct ->
                      /\ toolResult' = Failure("not found in search results")
                      /\ toolPc' = "idle"
                      /\ UNCHANGED <<product, toolRequests>>
                 [] OTHER ->
                      /\ product' = found
                      /\ WithProduct(found, toolRequests)
    /\ UNCHANGED <<toolCall, toolResponse, toolCalls, balanceResult>>

\* checkWalletBalance settles: failure, insufficient balance, the request for
\* confirmation, or the call of executeX402Flow, which issues its first fetch
WalletSettles ==
    /\ toolPc = "wallet"
    /\ \E failed \in BOOLEAN, usdcBalance \in Balances :
         LET totalPrice == Times(product.price, Quantity)
         IN /\ balanceResult' = [success |-> ~failed, USDC |-> IF failed THEN 0 ELSE usdcBalance]
            /\ CASE failed ->
                   /\ toolResult' = Failure("Could not check wallet balance")
                   /\ toolPc' = "idle"
                   /\ UNCHANGED toolRequests
              [] ~failed /\ LessThan(usdcBalance, totalPrice) ->
                   /\ toolResult' = Failure("Insufficient USDC balance")
                   /\ toolPc' = "idle"
                   /\ UNCHANGED toolRequests
              [] ~failed /\ ~LessThan(usdcBalance, totalPrice)
                   /\ ~Confirmed(toolCall.confirm) ->
                   /\ toolResult' = Success(TRUE)
                   /\ toolPc' = "idle"
                   /\ UNCHANGED toolRequests
              [] OTHER ->
                   /\ toolRequests' = Append(toolRequests, PurchaseUrl)
                   /\ toolPc' = "flow"
                   /\ UNCHANGED toolResult
    /\ UNCHANGED <<toolCall, productCache, product, toolResponse, toolCalls, searchLog>>

\* executeX402Flow settles: it rejects (the catch returns a failure) or
\* resolves with the initial response or, after a payment, with the response
\* of the retry it sent
FlowSettles ==
    /\ toolPc = "flow"
    /\ \E paid \in BOOLEAN, rejected \in BOOLEAN, status \in RetryStatuses :
         /\ (~paid /\ ~rejected) => status # 402
         /\ toolRequests' = IF paid THEN Append(toolRequests, PurchaseUrl) ELSE toolRequests
         /\ IF rejected
            THEN /\ toolResult' = Failure("Purchase failed")
                 /\ toolPc' = "idle"
                 /\ UNCHANGED toolResponse
            ELSE /\ toolResponse' = Response(IF paid THEN 2 ELSE 1, status)
                 /\ toolPc' = "json"
                 /\ UNCHANGED toolResult
    /\ UNCHANGED <<toolCall, productCache, product, toolCalls, balanceResult, searchLog>>

\* response.json() settles: a rejection and a status that is not ok give a
\* failure, anything else the order
PurchaseJsonSettles ==
    /\ toolPc = "json"
    /\ \E valid \in BOOLEAN :
         toolResult' = IF valid /\ IsOk(toolResponse.status)
                       THEN Success(FALSE)
                       ELSE Failure("Purchase failed")
    /\ toolPc' = "idle"
    /\ UNCHANGED <<toolCall, productCache, product, toolRequests, toolResponse, toolCalls,
                   balanceResult, searchLog>>

InitTool ==
    /\ FlowIdle
    /\ ChooseIdle
    /\ AcceptsIdle
    /\ KeyIdle
    /\ AppIdle

NextTool ==
    \/ (CallSearchAmazonProducts /\ UNCHANGED <<libVars, pageVars, walletVars, pairVars, moreVars>>)
    \/ (CallPurchaseAmazonProduct /\ UNCHANGED <<libVars, pageVars, walletVars, pairVars, moreVars>>)
    \/ (SearchSettles /\ UNCHANGED <<libVars, pageVars, walletVars, pairVars, moreVars>>)
    \/ (WalletSettles /\ UNCHANGED <<libVars, pageVars, walletVars, pairVars, moreVars>>)
    \/ (FlowSettles /\ UNCHANGED <<libVars, pageVars, walletVars, pairVars, moreVars>>)
    \/ (PurchaseJsonSettles /\ UNCHANGED <<libVars, pageVars, walletVars, pairVars, moreVars>>)

SpecTool == InitTool /\ [][NextTool]_vars

-----------------------------------------------------------------------------
(* src/lib/server/wallet.ts (src/unnamed/part_005): the dev balance ledger.  *)
(* getDevBalance and saveDevBalance are async functions that read and write  *)
(* the file synchronously; fundDevWallet awaits both, so a call is suspended *)
(* between its read and its write.                                           *)

Currencies == {"SOL", "USDC"}

\* the amounts of the funding requests
FundAmounts == {1, 2}

\* the content of .dev-balances.json when it exists and parses
StartBalances == {DefaultBalance, [SOL |-> 1, USDC |-> 5]}

\* fundDevWallet(amount, currency) up to its first await: getDevBalance runs to
\* its return (the file exists and parses) or to `await saveDevBalance(defaultBalance)`,
\* whose body has written the file, unless writeFileSync threw
CallFundDevWallet(f) ==
    /\ funders[f].pc = "idle"
    /\ \E amount \in FundAmounts, currency \in Currencies, writeOk \in BOOLEAN :
         IF devFile = "ok"
         THEN /\ funders' = [funders EXCEPT ![f] = [pc |-> "getDevBalance", amount |-> amount,
                                                    currency |-> currency, balance |-> devBalance,
                                                    saved |-> FALSE]]
              /\ UNCHANGED <<devFile, devBalance>>
         ELSE /\ funders' = [funders EXCEPT ![f] = [pc |-> "saveDefault", amount |-> amount,
                                                    currency |-> currency,
                                                    balance |-> DefaultBalance, saved |-> FALSE]]
              /\ devFile' = IF writeOk THEN "ok" ELSE devFile
              /\ devBalance' = IF writeOk THEN DefaultBalance ELSE devBalance
    /\ UNCHANGED startBalance

\* getDevBalance resumes after `await saveDevBalance(defaultBalance)` and returns
GetDevBalanceResumes(f) ==
    /\ funders[f].pc = "saveDefault"
    /\ funders' = [funders EXCEPT ![f].pc = "getDevBalance"]
    /\ UNCHANGED <<devFile, devBalance, startBalance>>

\* balance[currency] += amount, on the object getDevBalance returned
AddTo(balance, currency, amount) == [balance EXCEPT ![currency] = @ + amount]

\* fundDevWallet resumes with the balance: it adds the amount and calls
\* saveDevBalance, whose body writes the file, unless writeFileSync threw
FundDevWalletResumes(f) ==
    /\ funders[f].pc = "getDevBalance"
    /\ \E writeOk \in BOOLEAN :
         LET balance == AddTo(funders[f].balance, funders[f].currency, funders[f].amount)
         IN /\ funders' = [funders EXCEPT ![f].pc = "saveDevBalance", ![f].balance = balance,
                                           ![f].saved = writeOk]
            /\ devFile' = IF writeOk THEN "ok" ELSE devFile
            /\ devBalance' = IF writeOk THEN balance ELSE devBalance
    /\ UNCHANGED startBalance

\* fundDevWallet resumes after `await saveDevBalance(balance)` and returns balance
FundDevWalletReturns(f) ==
    /\ funders[f].pc = "saveDevBalance"
    /\ funders' = [funders EXCEPT ![f].pc = "done"]
    /\ UNCHANGED <<devFile, devBalance, startBalance>>

\* the ledger file before the first call: missing, unreadable, or holding
\* balances; getDevBalance gives the default balances in the first two cases
InitFund ==
    /\ FlowIdle
    /\ ChooseIdle
    /\ AcceptsIdle
    /\ KeyIdle
    /\ PageIdle
    /\ ToolIdle
    /\ WalletIdle
    /\ flows = [f \in Flows |-> IdleFlow]
    /\ SearchIdle
    /\ ResolveIdle
    /\ BannerIdle
    /\ ChatIdle
    /\ funders = [f \in Funders |-> IdleFunder]
    /\ devFile \in {"absent", "corrupt", "ok"}
    /\ devBalance \in IF devFile = "ok" THEN StartBalances ELSE {DefaultBalance}
    /\ startBalance = devBalance

besideFund == <<libVars, pageVars, toolVars, walletVars, flows, searchVars, resolveVars,
                bannerVars, chatVars>>

NextFund ==
    \/ \E f \in Funders : CallFundDevWallet(f) /\ UNCHANGED besideFund
    \/ \E f \in Funders : GetDevBalanceResumes(f) /\ UNCHANGED besideFund
    \/ \E f \in Funders : FundDevWalletResumes(f) /\ UNCHANGED besideFund
    \/ \E f \in Funders : FundDevWalletReturns(f) /\ UNCHANGED besideFund

SpecFund == InitFund /\ [][NextFund]_vars

-----------------------------------------------------------------------------
(* src/src/components/HealthBanner.tsx.  The effect has no dependencies, so  *)
(* the checkSystemHealth that runs at mount and on every tick of the         *)
(* interval is the function of the first render: the state it reads is the   *)
(* state of that render, whatever was set since.                             *)

\* const serviceChecks = [...]
ServiceChecks == <<"Facilitator", "Amazon Proxy", "Payment Proxy">>

\* isDismissed and configValid as the first render's checkSystemHealth sees them
FirstRender == [isDismissed |-> FALSE, configValid |-> TRUE]

\* validatePaymentSetup().valid: getPaymentConfig() succeeded when the module
\* payments.ts was loaded (its line 88), and the environment is the same
ConfigStatus == TRUE

\* results.some(s => !s.healthy)
SomeUnhealthy(results) == \E i \in 1..Len(results) : ~results[i]

\* the component renders the banner: the first load shows nothing
BannerShown == isVisible /\ ~(isChecking /\ Len(services) = 0)

\* checkSystemHealth is called, by the effect at mount or by the interval
\* (a check is over before the next tick: each fetch is aborted after 5 s):
\* setIsChecking(true), the configuration check, then the first fetch
StartCheck ==
    /\ check.pc = "none"
    /\ checksRun < MaxChecks
    /\ checksRun' = checksRun + 1
    /\ isChecking' = TRUE
    /\ configValid' = ConfigStatus
    /\ check' = [pc |-> "fetch", results |-> <<>>]
    /\ UNCHANGED <<isVisible, isDismissed, services>>

\* the fetch of a service settles (ok, not ok, rejected or aborted); after the
\* last one: setServices, setIsChecking(false), setIsVisible(hasIssues && !isDismissed)
HealthFetchSettles ==
    /\ check.pc = "fetch"
    /\ \E healthy \in BOOLEAN :
         LET results == Append(check.results, healthy)
             hasIssues == ~FirstRender.configValid \/ SomeUnhealthy(results)
         IN IF Len(results) < Len(ServiceChecks)
            THEN /\ check' = [check EXCEPT !.results = results]
                 /\ UNCHANGED <<isVisible, services, isChecking>>
            ELSE /\ check' = NoCheck
                 /\ services' = results
                 /\ isChecking' = FALSE
                 /\ isVisible' = (hasIssues /\ ~FirstRender.isDismissed)
    /\ UNCHANGED <<isDismissed, configValid, checksRun>>

\* a click on the X of the banner: setIsDismissed(true), setIsVisible(false)
HandleDismiss ==
    /\ BannerShown
    /\ isDismissed' = TRUE
    /\ isVisible' = FALSE
    /\ UNCHANGED <<services, configValid, isChecking, check, checksRun>>

InitBanner ==
    /\ FlowIdle
    /\ ChooseIdle
    /\ AcceptsIdle
    /\ KeyIdle
    /\ AppIdle

besideBanner == <<libVars, pageVars, toolVars, walletVars, pairVars, searchVars, resolveVars,
                  fundVars, chatVars>>

NextBanner ==
    \/ (StartCheck /\ UNCHANGED besideBanner)
    \/ (HealthFetchSettles /\ UNCHANGED besideBanner)
    \/ (HandleDismiss /\ UNCHANGED besideBanner)

SpecBanner == InitBanner /\ [][NextBanner]_vars

-----------------------------------------------------------------------------
(* src/lib/anthropic.ts (src/unnamed/part_006): createAutonomousChatStream,  *)
(* one action per await.  The conversation grows by two messages in every    *)
(* iteration; the model keeps the number of iterations, up to MaxRounds.     *)

\* names of the tool_use blocks the model sends
ToolNames == {"check_wallet_balance", "search_amazon_products", "purchase_amazon_product",
              "fund_wallet"}

\* response.content.filter(block => block.type === 'tool_use')
ToolUseLists == SeqsUpTo(ToolNames, MaxToolUses)

\* toolResult.success of a ToolResult; executeToolCall catches what its tools throw
ToolOutcomes == {"success", "failure"}

\* the count of iterations, capped
NextRound(n) == IF n < MaxRounds THEN n + 1 ELSE MaxRounds

\* createAutonomousChatStream(messages) up to the first `await anthropic.messages.create`
CallChat ==
    /\ chatPc = "idle"
    /\ chatPc' = "create"
    /\ rounds' = 1
    /\ UNCHANGED <<toolUses, toolResults>>

\* the model answers: with tool_use blocks the first tool is executed, without
\* any the final stream is returned
CreateResolves ==
    /\ chatPc = "create"
    /\ \E uses \in ToolUseLists :
         /\ toolUses' = uses
         /\ chatPc' = IF Len(uses) > 0 THEN "tool" ELSE "returned"
    /\ toolResults' = <<>>
    /\ UNCHANGED rounds

\* the API call rejects: the catch logs and rethrows
CreateRejects ==
    /\ chatPc = "create"
    /\ chatPc' = "thrown"
    /\ UNCHANGED <<toolUses, toolResults, rounds>>

\* executeToolCall settles: the result is pushed; after the last tool the
\* results are appended to the conversation and `continue` starts the next
\* iteration with its API call
ToolCallSettles ==
    /\ chatPc = "tool"
    /\ \E outcome \in ToolOutcomes :
         LET results == Append(toolResults, outcome)
         IN IF Len(results) < Len(toolUses)
            THEN /\ toolResults' = results
                 /\ UNCHANGED <<chatPc, toolUses, rounds>>
            ELSE /\ toolResults' = <<>>
                 /\ toolUses' = <<>>
                 /\ chatPc' = "create"
                 /\ rounds' = NextRound(rounds)

InitChat ==
    /\ FlowIdle
    /\ ChooseIdle
    /\ AcceptsIdle
    /\ KeyIdle
    /\ AppIdle

besideChat == <<libVars, pageVars, toolVars, walletVars, pairVars, searchVars, resolveVars,
                fundVars, bannerVars>>

NextChat ==
    \/ (CallChat /\ UNCHANGED besideChat)
    \/ (CreateResolves /\ UNCHANGED besideChat)
    \/ (CreateRejects /\ UNCHANGED besideChat)
    \/ (ToolCallSettles /\ UNCHANGED besideChat)

SpecChat == InitChat /\ [][NextChat]_vars

\* every pending await settles: the API answers and every tool call returns
SpecChatFair == SpecChat /\ WF_vars(NextChat)

-----------------------------------------------------------------------------
(* The two accepts resolvers of faremeter.ts applied to one parsed 402 body  *)

\* what a resolver gave: a list, or the error it threw
Resolved(r) == [done |-> TRUE, threw |-> r.threw, cause |-> r.cause, list |-> r.list]

InitResolve ==
    /\ FlowIdle
    /\ ChooseIdle
    /\ AcceptsIdle
    /\ KeyIdle
    /\ PageIdle
    /\ ToolIdle
    /\ WalletIdle
    /\ PairIdle
    /\ SearchIdle
    /\ FundIdle
    /\ BannerIdle
    /\ ChatIdle
    /\ acceptsData \in {TextOf(j) : j \in JsonBodies}
    /\ fetchList = NotResolved
    /\ flowList = NotResolved

\* fetchAccepts, lines 106-118, on the body
ResolveInFetchAccepts ==
    /\ ~fetchList.done
    /\ fetchList' = Resolved(ResolveFetchAccepts(acceptsData.json))
    /\ UNCHANGED <<acceptsData, flowList>>

\* executeX402Flow, lines 306-316, on the same body
ResolveInFlow ==
    /\ ~flowList.done
    /\ flowList' = Resolved(ResolveFlowAccepts(acceptsData.json))
    /\ UNCHANGED <<acceptsData, fetchList>>

\* the next 402 body
NextBody ==
    /\ fetchList.done
    /\ flowList.done
    /\ acceptsData' \in {TextOf(j) : j \in JsonBodies}
    /\ fetchList' = NotResolved
    /\ flowList' = NotResolved

besideResolve == <<libVars, pageVars, toolVars, walletVars, pairVars, searchVars, fundVars,
                   bannerVars, chatVars>>

NextResolve ==
    \/ (ResolveInFetchAccepts /\ UNCHANGED besideResolve)
    \/ (ResolveInFlow /\ UNCHANGED besideResolve)
    \/ (NextBody /\ UNCHANGED besideResolve)

SpecResolve == InitResolve /\ [][NextResolve]_vars

-----------------------------------------------------------------------------
(* Searches running side by side on one ToolExecutor, with one purchase      *)
(* beside them.  A search awaits its fetch, then response.json(); the        *)
(* transformation and the writes to the cache follow without another await.  *)

\* searchAmazonProducts(query) up to `await fetch(searchUrl, ...)`
CallSearch(s) ==
    /\ searches[s].pc = "idle"
    /\ \E query \in ToolSkus : searches' = [searches EXCEPT ![s] = [pc |-> "fetch", query |-> query]]
    /\ UNCHANGED <<productCache, searchLog>>

\* the fetch settles: a rejection and a status that is not ok end the search
\* in its catch, an ok response goes on to `await response.json()`
SearchFetchSettles(s) ==
    /\ searches[s].pc = "fetch"
    /\ \E ok \in BOOLEAN :
         searches' = [searches EXCEPT ![s] = IF ok THEN [@ EXCEPT !.pc = "json"]
                                                   ELSE DoneSearch]
    /\ UNCHANGED <<productCache, searchLog>>

\* response.json() settles: the products are transformed and the signed ones
\* written to the cache, then the search returns
SearchJsonSettles(s) ==
    /\ searches[s].pc = "json"
    /\ \E outcome \in SearchOutcomes(searches[s].query) :
         /\ productCache' = CacheAfter(productCache, outcome.products)
         /\ searchLog' = IF outcome.failed THEN searchLog
                                           ELSE Append(searchLog, outcome.products)
    /\ searches' = [searches EXCEPT ![s] = DoneSearch]

InitCache ==
    /\ FlowIdle
    /\ ChooseIdle
    /\ AcceptsIdle
    /\ KeyIdle
    /\ AppIdle

\* the variables the searches leave alone
toolLocals == <<toolPc, toolCall, product, toolRequests, toolResponse, toolResult, toolCalls,
                balanceResult>>
besideTools == <<libVars, pageVars, walletVars, pairVars, resolveVars, fundVars, bannerVars,
                 chatVars>>

NextCache ==
    \/ \E s \in Searches : CallSearch(s) /\ UNCHANGED <<toolLocals, besideTools>>
    \/ \E s \in Searches : SearchFetchSettles(s) /\ UNCHANGED <<toolLocals, besideTools>>
    \/ \E s \in Searches : SearchJsonSettles(s) /\ UNCHANGED <<toolLocals, besideTools>>
    \/ (CallPurchaseAmazonProduct /\ toolCalls = 0 /\ UNCHANGED <<searches, besideTools>>)
    \/ (SearchSettles /\ UNCHANGED <<searches, besideTools>>)
    \/ (WalletSettles /\ UNCHANGED <<searches, besideTools>>)
    \/ (FlowSettles /\ UNCHANGED <<searches, besideTools>>)
    \/ (PurchaseJsonSettles /\ UNCHANGED <<searches, besideTools>>)

SpecCache == InitCache /\ [][NextCache]_vars

-----------------------------------------------------------------------------
(* src/lib/server/wallet.ts (src/unnamed/part_005): getWallet.  Its body holds *)
(* no await, so a call runs from its first line to its return in one step;    *)
(* the caller's `await getWallet()` resumes in a later step.                   *)

\* process.env.MALLORY_WALLET_SECRET_BASE58: unset, a secret Keypair.fromSecretKey
\* accepts, a secret it rejects
EnvSecrets == {"absent", "valid", "invalid"}

\* .wallet.json: missing, a stored keypair, content that does not load
WalletFiles == {"absent", "file-key", "corrupt"}

\* Keypair.generate(): the n-th keypair generated in the process
NewKeypair(n) == "new-" \o ToDecimal(n)

\* the outcome of a call and the module and file state it leaves
Outcome(threw, value, cached, file, gen, writes) ==
    [threw |-> threw, value |-> value, cachedWallet |-> cached, walletFile |-> file,
     generated |-> gen, fileWrites |-> writes]

\* getWallet below the test of cachedWallet: the env secret, the file, a new
\* keypair written to the file; generateOk and writeOk say whether
\* Keypair.generate() and writeFileSync return or throw
LoadOrGenerate(env, file, gen, writes, generateOk, writeOk) ==
    IF env = "valid" THEN Outcome(FALSE, "env-key", "env-key", file, gen, writes)
    ELSE IF file \notin {"absent", "corrupt"}
         THEN Outcome(FALSE, file, file, file, gen, writes)
    ELSE IF ~generateOk
         THEN Outcome(TRUE, NoKeypair, NoKeypair, file, gen, writes)
    ELSE LET new == NewKeypair(gen + 1)
         IN Outcome(FALSE, new, new, IF writeOk THEN new ELSE file, gen + 1, writes + 1)

\* mutant: the cached keypair is not consulted
getWalletNoCache(cached, env, file, gen, writes, generateOk, writeOk) ==
    LoadOrGenerate(env, file, gen, writes, generateOk, writeOk)

\* getWallet(): if (cachedWallet) return cachedWallet; else load or generate
getWallet(cached, env, file, gen, writes, generateOk, writeOk) ==
    IF cached # NoKeypair
    THEN Outcome(FALSE, cached, cached, file, gen, writes)
    ELSE LoadOrGenerate(env, file, gen, writes, generateOk, writeOk)

\* caller c calls getWallet(): the body runs and the promise settles
CallGetWallet ==
    \E c \in Callers, generateOk \in BOOLEAN, writeOk \in BOOLEAN :
        LET out == getWallet(cachedWallet, walletEnv, walletFile, generated, fileWrites,
                             generateOk, writeOk)
        IN /\ callers[c].pc = "idle"
           /\ cachedWallet' = out.cachedWallet
           /\ walletFile' = out.walletFile
           /\ generated' = out.generated
           /\ fileWrites' = out.fileWrites
           /\ callers' = [callers EXCEPT ![c] =
                             [pc |-> IF out.threw THEN "rejecting" ELSE "resolving",
                              got |-> out.value]]
           /\ UNCHANGED walletEnv

\* the await of caller c resumes with the keypair, or throws
AwaitResumes ==
    \E c \in Callers :
        /\ callers[c].pc \in {"resolving", "rejecting"}
        /\ callers' = [callers EXCEPT ![c].pc =
                          IF callers[c].pc = "resolving" THEN "resolved" ELSE "rejected"]
        /\ UNCHANGED <<cachedWallet, walletEnv, walletFile, generated, fileWrites>>

\* a process at cold start, with any environment and any wallet file
InitWallet ==
    /\ FlowIdle
    /\ ChooseIdle
    /\ AcceptsIdle
    /\ KeyIdle
    /\ PageIdle
    /\ ToolIdle
    /\ PairIdle
    /\ MoreIdle
    /\ cachedWallet = NoKeypair
    /\ walletEnv \in EnvSecrets
    /\ walletFile \in WalletFiles
    /\ generated = 0
    /\ fileWrites = 0
    /\ callers = [c \in Callers |-> [pc |-> "idle", got |-> NoKeypair]]

NextWallet ==
    \/ (CallGetWallet /\ UNCHANGED <<libVars, pageVars, toolVars, pairVars, moreVars>>)
    \/ (AwaitResumes /\ UNCHANGED <<libVars, pageVars, toolVars, pairVars, moreVars>>)

SpecWallet == InitWallet /\ [][NextWallet]_vars

-----------------------------------------------------------------------------
(* Concurrent invocations of executeX402Flow in one process.  Each invocation *)
(* has its own locals (a record of flows); the module state they share is the *)
(* wallet of wallet.ts.  A step is the code between two awaits, as in Spec.   *)

\* calls of the concurrent flows
PairCalls ==
    {[endpoint |-> e, method |-> mb[1], headers |-> NoHeaders, body |-> mb[2],
      maxRetries |-> DefaultMaxRetries] :
        e \in Endpoints, mb \in {<<"GET", "none">>, <<"POST", "unicode">>}}

\* answers to a fetch
FetchOutcomes(statuses) ==
    {[failed |-> TRUE, status |-> 0]} \cup {[failed |-> FALSE, status |-> st] : st \in statuses}

\* 402 bodies sent to the concurrent flows
PairTexts == {BadText, TextOf(JsonNull), TextOf(JsonObject(Arr(<<>>), Absent, Absent, 0, "")),
              TextOf(JsonObject(Arr(<<Str("foo-scheme"), Str("x-solana-settlement")>>),
                                Absent, Absent, 7, "EUR"))}

\* wallet.publicKey.toBase58() of a keypair
AddressOf(keypair) ==
    CASE keypair = "env-key" -> <<"E", "n", "v", "K", "e", "y", "1", "1", "1">>
      [] keypair = "file-key" -> <<"F", "i", "L", "e", "K", "e", "y", "1", "1">>
      [] OTHER -> <<"N", "e", "w", "K", "e", "y", "1", "1", "1">>

\* a flow that has rejected with error e
RejectedWith(s, e) == [s EXCEPT !.pc = "rejected", !.error = FlowCatch(e)]

\* an error that is not a FaremeterError
PlainError(cause) == [class |-> "Error", code |-> "", endpoint |-> "", status |-> 0,
                      cause |-> cause]

\* executeX402Flow(endpoint, options) up to `await fetch(endpoint, ...)`
Called(c) ==
    [IdleFlow EXCEPT !.pc = "fetch1", !.call = c,
                     !.requests = <<Request(c, InitialHeaders(c.headers))>>]

\* mutant: the response is kept in a variable of the module, and the flow
\* goes on with the status another invocation stored there
AfterInitialFetchShared(s, answer, others) ==
    LET seen == {o \in others : ~o.inputs.fetch1.failed /\ o.inputs.fetch1.status # 0}
        used == IF seen = {} THEN answer.status
                ELSE (CHOOSE o \in seen : TRUE).inputs.fetch1.status
        t == [s EXCEPT !.inputs.fetch1 = answer]
    IN IF answer.failed THEN RejectedWith(t, PlainError("fetch failed"))
       ELSE IF ~NeedsPayment(used)
            THEN [t EXCEPT !.pc = "returned", !.result = Response(1, used)]
       ELSE [t EXCEPT !.pc = "text"]

\* the flow after its first fetch settled with `answer`; `others` are the
\* other invocations
AfterInitialFetch(s, answer, others) ==
    LET t == [s EXCEPT !.inputs.fetch1 = answer]
    IN IF answer.failed THEN RejectedWith(t, PlainError("fetch failed"))
       ELSE IF ~NeedsPayment(answer.status)
            THEN [t EXCEPT !.pc = "returned", !.result = Response(1, answer.status)]
       ELSE [t EXCEPT !.pc = "text"]

\* the flow after initialResponse.text() settled: parse, accepts resolution,
\* scheme choice, intent, and the call of signAndSubmit up to `await getWallet()`
AfterText(s, failed, text) ==
    LET t == [s EXCEPT !.inputs.textFailed = failed,
                       !.inputs.text = IF failed THEN NoText ELSE text]
        resolved == ResolveFlowAccepts(text.json)
    IN CASE failed -> RejectedWith(t, PlainError("body read failed"))
         [] ~failed /\ ~text.valid -> RejectedWith(t, InvalidResponseError)
         [] ~failed /\ text.valid /\ resolved.threw ->
               RejectedWith(t, PlainError(resolved.cause))
         [] ~failed /\ text.valid /\ ~resolved.threw /\ Len(resolved.list) = 0 ->
               RejectedWith(t, EmptyAcceptsError(s.call.endpoint))
         [] ~failed /\ text.valid /\ ~resolved.threw /\ Len(resolved.list) > 0
               /\ s.call.body = "unicode" ->
               RejectedWith([t EXCEPT !.flowAccepts = resolved.list],
                            PlainError("InvalidCharacterError"))
         [] OTHER ->
               [t EXCEPT !.flowAccepts = resolved.list,
                         !.intent = MakeIntent(s.call, text.json, chooseScheme(resolved.list)),
                         !.signCalls = s.signCalls + 1,
                         !.pc = "wallet"]

\* the flow after `await getWallet()` settled with the promise `out`:
\* signAndSubmit returns or throws, and the retry is issued
AfterGetWallet(s, out, timestamp, fraction, picks) ==
    IF out.threw
    THEN RejectedWith([s EXCEPT !.inputs.signerThrew = TRUE], SolanaPaymentFailed("wallet"))
    ELSE LET payment == signAndSubmit(s.intent, AddressOf(out.value), timestamp, fraction, picks)
             t == [s EXCEPT !.inputs.payment = payment, !.paymentResult = payment]
         IN IF ~payment.success
            THEN RejectedWith(t, FaremeterError("PAYMENT_FAILED", "", 0, ""))
            ELSE [t EXCEPT !.requests = Append(s.requests,
                                               Request(s.call, RetryHeaders(s.call.headers, payment))),
                           !.pc = "fetch2"]

\* the flow after the retry settled
AfterRetryFetch(s, answer) ==
    LET t == [s EXCEPT !.inputs.fetch2 = answer]
    IN IF answer.failed THEN RejectedWith(t, PlainError("fetch failed"))
       ELSE [t EXCEPT !.pc = "returned", !.result = Response(2, answer.status)]

\* how an invocation ends: the settled promise and the requests it has sent
Settled(state, response, e, sent) ==
    [pc |-> state, result |-> response, error |-> e, requests |-> sent]

\* executeX402Flow run on its own, from the call to the settled promise, with
\* the answers `in` to its awaits: the body of the function read top to bottom
RunAlone(c, in) ==
    LET first == Request(c, InitialHeaders(c.headers))
        retry == Request(c, RetryHeaders(c.headers, in.payment))
        resolved == ResolveFlowAccepts(in.text.json)
        Wrapped(cause) == FaremeterError("X402_FLOW_FAILED", "", 0, cause)
        Throws(e, sent) == Settled("rejected", NoResponse, e, sent)
    IN IF in.fetch1.failed THEN Throws(Wrapped("fetch failed"), <<first>>)
       ELSE IF in.fetch1.status # 402
            THEN Settled("returned", Response(1, in.fetch1.status), NoError, <<first>>)
       ELSE IF in.textFailed THEN Throws(Wrapped("body read failed"), <<first>>)
       ELSE IF ~in.text.valid
            THEN Throws(FaremeterError("INVALID_402_RESPONSE", "", 0, ""), <<first>>)
       ELSE IF resolved.threw THEN Throws(Wrapped(resolved.cause), <<first>>)
       ELSE IF Len(resolved.list) = 0 THEN Throws(EmptyAcceptsError(c.endpoint), <<first>>)
       ELSE IF c.body = "unicode" THEN Throws(Wrapped("InvalidCharacterError"), <<first>>)
       ELSE IF in.signerThrew
            THEN Throws(FaremeterError("SOLANA_PAYMENT_FAILED", "", 0, "wallet"), <<first>>)
       ELSE IF ~in.payment.success
            THEN Throws(FaremeterError("PAYMENT_FAILED", "", 0, ""), <<first>>)
       ELSE IF in.fetch2.failed THEN Throws(Wrapped("fetch failed"), <<first, retry>>)
       ELSE Settled("returned", Response(2, in.fetch2.status), NoError, <<first, retry>>)

\* an invocation is called
PairCallFlow ==
    \E f \in Flows, c \in PairCalls :
        /\ flows[f].pc = "idle"
        /\ flows' = [flows EXCEPT ![f] = Called(c)]
        /\ UNCHANGED <<walletVars, devBalance>>

\* the first fetch of an invocation settles
PairInitialFetchSettles ==
    \E f \in Flows, answer \in FetchOutcomes({200, 402}) :
        /\ flows[f].pc = "fetch1"
        /\ flows' = [flows EXCEPT ![f] =
                        AfterInitialFetch(flows[f], answer, {flows[g] : g \in Flows \ {f}})]
        /\ UNCHANGED <<walletVars, devBalance>>

\* the body text of an invocation settles; when the flow reaches signAndSubmit
\* the body of getWallet runs in the same step and its promise is kept in
\* callers[f]
PairTextSettles ==
    \E f \in Flows, failed \in BOOLEAN, text \in PairTexts,
       generateOk \in BOOLEAN, writeOk \in BOOLEAN :
        LET t == AfterText(flows[f], failed, text)
            out == getWallet(cachedWallet, walletEnv, walletFile, generated, fileWrites,
                             generateOk, writeOk)
        IN /\ flows[f].pc = "text"
           /\ failed => text = BadText
           /\ flows' = [flows EXCEPT ![f] = t]
           /\ IF t.pc = "wallet"
              THEN /\ cachedWallet' = out.cachedWallet
                   /\ walletFile' = out.walletFile
                   /\ generated' = out.generated
                   /\ fileWrites' = out.fileWrites
                   /\ callers' = [callers EXCEPT ![f] =
                                     [pc |-> IF out.threw THEN "rejecting" ELSE "resolving",
                                      got |-> out.value]]
              ELSE /\ generateOk /\ writeOk
                   /\ UNCHANGED <<cachedWallet, walletFile, generated, fileWrites, callers>>
           /\ UNCHANGED <<walletEnv, devBalance>>

\* `await getWallet()` of an invocation resumes
PairGetWalletSettles ==
    \E f \in Flows, timestamp \in FlowTimestamps, fraction \in FlowFractions,
       picks \in SignaturePicks :
        /\ flows[f].pc = "wallet"
        /\ flows' = [flows EXCEPT ![f] =
                        AfterGetWallet(flows[f],
                                       [threw |-> callers[f].pc = "rejecting",
                                        value |-> callers[f].got],
                                       timestamp, fraction, picks)]
        /\ callers' = [callers EXCEPT ![f].pc =
                          IF callers[f].pc = "resolving" THEN "resolved" ELSE "rejected"]
        /\ UNCHANGED <<cachedWallet, walletEnv, walletFile, generated, fileWrites, devBalance>>

\* the retry of an invocation settles
PairRetryFetchSettles ==
    \E f \in Flows, answer \in FetchOutcomes({200, 500}) :
        /\ flows[f].pc = "fetch2"
        /\ flows' = [flows EXCEPT ![f] = AfterRetryFetch(flows[f], answer)]
        /\ UNCHANGED <<walletVars, devBalance>>

InitPair ==
    /\ FlowIdle
    /\ ChooseIdle
    /\ AcceptsIdle
    /\ KeyIdle
    /\ AppIdle

NextPair ==
    \/ (PairCallFlow /\ UNCHANGED <<libVars, pageVars, toolVars, moreVars>>)
    \/ (PairInitialFetchSettles /\ UNCHANGED <<libVars, pageVars, toolVars, moreVars>>)
    \/ (PairTextSettles /\ UNCHANGED <<libVars, pageVars, toolVars, moreVars>>)
    \/ (PairGetWalletSettles /\ UNCHANGED <<libVars, pageVars, toolVars, moreVars>>)
    \/ (PairRetryFetchSettles /\ UNCHANGED <<libVars, pageVars, toolVars, moreVars>>)

SpecPair == InitPair /\ [][NextPair]_vars

-----------------------------------------------------------------------------
(* Properties of chooseScheme, checked under SpecChoose *)

\* some preferred scheme occurs in the list
HasPreferred(list) == \E p \in 1..Len(PAYMENT_SCHEMES) : Includes(list, PAYMENT_SCHEMES[p])

\* C1: chooseScheme is total: for every list of strings (the empty list, lists
\* with no known scheme and lists starting with '' included) the call completes
\* without throwing and returns a non-empty string.
C1_ChooseSchemeTotal ==
    chResult.done => (~chResult.threw /\ chResult.value # "")

\* C1 witness: the call has returned for a list whose first element is '' and
\* that holds no known scheme.
C1_Witness ==
    /\ chResult.done
    /\ Len(chAccepts) >= 1
    /\ chAccepts[1] = Str("")
    /\ ~HasPreferred(chAccepts)
    /\ chResult.value = DefaultScheme

\* C7: when the list holds at least one of the three preferred schemes, the
\* result is the one of them that is earliest in the preference order,
\* whatever the order and the other elements of the list.
C7_PreferenceOrder ==
    (chResult.done /\ HasPreferred(chAccepts)) =>
        \E p \in 1..Len(PAYMENT_SCHEMES) :
            /\ Includes(chAccepts, PAYMENT_SCHEMES[p])
            /\ \A q \in 1..(p - 1) : ~Includes(chAccepts, PAYMENT_SCHEMES[q])
            /\ chResult.value = PAYMENT_SCHEMES[p]

\* C7 witness: ['x-ethereum-settlement', 'x-solana-settlement'] gave solana.
C7_Witness ==
    /\ chResult.done
    /\ chAccepts = <<Str("x-ethereum-settlement"), Str("x-solana-settlement")>>
    /\ chResult.value = "x-solana-settlement"

\* C8 as stated: for every non-empty list with none of the preferred schemes
\* the result is the first element verbatim, whatever string it is.
C8_Original ==
    (chResult.done /\ Len(chAccepts) >= 1 /\ ~HasPreferred(chAccepts)) =>
        chResult.value = chAccepts[1].v

\* C8 amended: for every non-empty list with none of the preferred schemes the
\* result is the first element verbatim when that element is a non-empty
\* string, and 'x-solana-settlement' when it is the empty string.
C8_FirstElementFallback ==
    (chResult.done /\ Len(chAccepts) >= 1 /\ ~HasPreferred(chAccepts)) =>
        chResult.value = (IF chAccepts[1].v # "" THEN chAccepts[1].v ELSE "x-solana-settlement")

\* C8 witness: ['foo-scheme', ...] gave 'foo-scheme'.
C8_Witness ==
    /\ chResult.done
    /\ Len(chAccepts) >= 1
    /\ chAccepts[1] = Str("foo-scheme")
    /\ ~HasPreferred(chAccepts)
    /\ chResult.value = "foo-scheme"

-----------------------------------------------------------------------------
(* Properties of executeX402Flow, checked under Spec *)

\* the signer has succeeded in this run: after a 402 with a non-empty accepts
\* list signAndSubmit returned a successful receipt
SignerSucceeded ==
    /\ initialResponse.status = 402
    /\ Len(flowAccepts) > 0
    /\ paymentResult.success

\* the retry was sent and the only value it carries under the
\* X-Payment-Signature header name is the signer's signature, which is not ''
RetryCarriesSignature ==
    /\ Len(requests) = 2
    /\ paymentResult.signature # ""
    /\ HeaderValues(requests[2].headers, "x-payment-signature") = {paymentResult.signature}

\* C2 as stated: whenever the initial response is 402, accepts is non-empty
\* and the signer succeeds, the retried request carries an X-Payment-Signature
\* header that is non-empty and equal to the signature, for every set of
\* caller-supplied headers.
C2_Original == SignerSucceeded => RetryCarriesSignature

\* the caller passes a key that names the X-Payment-Signature header
CallerSetsSignatureHeader ==
    \E k \in DOMAIN call.headers : HeaderName(k) = "x-payment-signature"

\* C2 amended: whenever the initial response is 402, accepts is non-empty and
\* the signer succeeds, the retried request carries an X-Payment-Signature
\* header that is non-empty and equal to the signature, for every set of
\* caller-supplied headers that has no key naming the X-Payment-Signature
\* header (in any letter case).
C2_SignatureHeader ==
    (SignerSucceeded /\ ~CallerSetsSignatureHeader) => RetryCarriesSignature

\* C2 witness: a retry with a caller header (Authorization) that carries the
\* signature.
C2_Witness ==
    /\ SignerSucceeded
    /\ DOMAIN call.headers = {"Authorization"}
    /\ Len(requests) = 2
    /\ requests[2].headers["X-Payment-Signature"] = paymentResult.signature
    /\ requests[2].headers["Authorization"] = "caller-value"

\* the accepts list of a parsed body d resolves to the empty list: d is not
\* null, and the first of accepts, payment_methods, schemes that is an array
\* is empty (or none of them is an array)
EmptyAcceptsBody(d) ==
    /\ d.k # "null"
    /\ \/ IsArray(d.accepts) /\ d.accepts.v = <<>>
       \/ ~IsArray(d.accepts) /\ IsArray(d.payment_methods) /\ d.payment_methods.v = <<>>
       \/ ~IsArray(d.accepts) /\ ~IsArray(d.payment_methods) /\ IsArray(d.schemes)
            /\ d.schemes.v = <<>>
       \/ ~IsArray(d.accepts) /\ ~IsArray(d.payment_methods) /\ ~IsArray(d.schemes)

\* C3: when the initial response is a 402 whose accepts list resolves to the
\* empty list, the flow rejects with EMPTY_ACCEPTS, and signAndSubmit has not
\* been called and no retry request has been sent (the rejected state is final).
C3_EmptyAcceptsRejected ==
    (initialResponse.status = 402 /\ responseText.valid /\ EmptyAcceptsBody(responseText.json)) =>
        /\ pc = "rejected"
        /\ error.code = "EMPTY_ACCEPTS"
        /\ signCalls = 0
        /\ Len(requests) = 1
        /\ ~ENABLED Next

\* C3 witness: the body {"accepts": []} has been rejected.
C3_Witness ==
    /\ pc = "rejected"
    /\ responseText = TextOf(JsonObject(Arr(<<>>), Absent, Absent, 0, ""))
    /\ error.code = "EMPTY_ACCEPTS"

\* C4: when the initial response has a status other than 402, the flow
\* returns that same response object, body unread, after exactly one request,
\* without a signAndSubmit call and without an error.
C4_Non402PassThrough ==
    (initialResponse.id = 1 /\ initialResponse.status # 402) =>
        /\ pc = "returned"
        /\ result = initialResponse
        /\ ~result.bodyUsed
        /\ responseText = NoText
        /\ Len(requests) = 1
        /\ signCalls = 0
        /\ error = NoError

\* C4 witness: a 500 came back and was returned.
C4_Witness ==
    /\ pc = "returned"
    /\ initialResponse.status = 500
    /\ result.id = 1
    /\ result.status = 500

C6_InvalidBodyRejected ==
    (initialResponse.status = 402 /\ responseText = BadText) =>
        /\ pc = "rejected"
        /\ error.code = "INVALID_402_RESPONSE"
        /\ signCalls = 0
        /\ Len(requests) = 1
        /\ ~ENABLED Next

\* C6 witness: an unparsable 402 body has been rejected.
C6_Witness ==
    /\ pc = "rejected"
    /\ initialResponse.status = 402
    /\ responseText = BadText
    /\ error.class = "FaremeterError"

-----------------------------------------------------------------------------
(* Properties of fetchAccepts, checked under SpecAccepts *)

\* C9: fetchAccepts(endpoint), on a 402 whose scheme list resolves to the
\* empty list, fails with an EmptyAcceptsError of code EMPTY_ACCEPTS whose
\* details.endpoint is the endpoint of the call; it does not return.
C9_FetchAcceptsEmpty ==
    (faResponse.status = 402 /\ faData.valid /\ EmptyAcceptsBody(faData.json)) =>
        /\ faPc = "rejected"
        /\ faError.class = "EmptyAcceptsError"
        /\ faError.code = "EMPTY_ACCEPTS"
        /\ faError.endpoint = faEndpoint
        /\ faEndpoint \in Endpoints
        /\ faResult = NoAcceptsHeader
        /\ ~ENABLED NextAccepts

\* C9 witness: the body {"accepts": []} made the call fail.
C9_Witness ==
    /\ faPc = "rejected"
    /\ faResponse.status = 402
    /\ faData = TextOf(JsonObject(Arr(<<>>), Absent, Absent, 0, ""))
    /\ faError.code = "EMPTY_ACCEPTS"
    /\ faError.endpoint = "http://localhost:8787/purchase"

-----------------------------------------------------------------------------
(* Properties of generateIdempotencyKey, checked under SpecKey *)

\* C10: two calls with the same wallet address and the same resource at
\* different timestamps return different keys, whatever the random suffixes
\* (the empty suffix included).
C10_KeysDifferAcrossTimestamps ==
    (/\ keyPrev.called
     /\ keyLast.called
     /\ keyPrev.walletAddress = keyLast.walletAddress
     /\ keyPrev.productAsin = keyLast.productAsin
     /\ keyPrev.timestamp # keyLast.timestamp) => keyPrev.key # keyLast.key

\* C10 witness: same wallet and resource, timestamps 1 and 11, suffixes "1"
\* and "" (the pair whose digits run together without the separator).
C10_Witness ==
    /\ keyPrev.called
    /\ keyLast.called
    /\ keyPrev.walletAddress = keyLast.walletAddress
    /\ keyPrev.productAsin = keyLast.productAsin
    /\ keyPrev.timestamp = 1
    /\ keyPrev.fraction = <<"1">>
    /\ keyLast.timestamp = 11
    /\ keyLast.fraction = <<>>
    /\ keyPrev.key # keyLast.key

-----------------------------------------------------------------------------
(* Errors of the library, checked under SpecErrors *)

\* the error codes of the taxonomy
TaxonomyCodes == {"EMPTY_ACCEPTS", "UNSUPPORTED_SCHEMES", "UNEXPECTED_STATUS",
                  "INVALID_402_RESPONSE", "SOLANA_PAYMENT_FAILED", "PAYMENT_FAILED",
                  "X402_FLOW_FAILED"}

\* C11 as stated: every failure of fetchAccepts, signAndSubmit and
\* executeX402Flow is a FaremeterError whose code is one of the seven codes
\* of the taxonomy.
C11_Original ==
    /\ (pc = "rejected") => (IsFaremeterError(error) /\ error.code \in TaxonomyCodes)
    /\ (faPc = "rejected") => (IsFaremeterError(faError) /\ faError.code \in TaxonomyCodes)

\* C11: every failure of fetchAccepts, signAndSubmit and executeX402Flow is
\* a FaremeterError whose code is one of the seven codes of the taxonomy or
\* FETCH_ACCEPTS_FAILED; only fetchAccepts fails with FETCH_ACCEPTS_FAILED,
\* and a failed network call of the flow gives X402_FLOW_FAILED.
C11_ErrorCodes ==
    /\ (pc = "rejected") => (IsFaremeterError(error) /\ error.code \in TaxonomyCodes)
    /\ (faPc = "rejected") =>
           (IsFaremeterError(faError)
            /\ faError.code \in TaxonomyCodes \cup {"FETCH_ACCEPTS_FAILED"})
    /\ (pc = "rejected" /\ error.cause = "fetch failed") => error.code = "X402_FLOW_FAILED"

\* C11 witness: the network call of fetchAccepts failed.
C11_Witness ==
    /\ faPc = "rejected"
    /\ faError.cause = "fetch failed"
    /\ faError.code = "FETCH_ACCEPTS_FAILED"
    /\ IsFaremeterError(faError)

-----------------------------------------------------------------------------
(* Headers of the retry, checked under Spec *)

\* the retry has been issued
RetrySent == Len(requests) = 2

\* the only value the retry carries under the header that key k names is v
SentAlone(k, v) == HeaderValues(requests[2].headers, HeaderName(k)) = {v}

\* no other key of the retry's headers object names the header that k names
OnlySpelling(k) ==
    \A h \in DOMAIN requests[2].headers : HeaderName(h) = HeaderName(k) => h = k

\* C16 as stated: in the retried request, for every header key supplied by
\* the caller the caller's value is the one sent, also when the key collides
\* with a header the flow sets itself.
C16_Original ==
    RetrySent => \A k \in DOMAIN call.headers : SentAlone(k, call.headers[k])

\* C16 amended: in the retried request the headers object holds the caller's
\* value under every key the caller supplied, also under a key the flow sets
\* itself; and that value is the only one sent under the header's name
\* whenever the object holds no other spelling of that name.
C16_CallerHeadersWin ==
    RetrySent =>
        \A k \in DOMAIN call.headers :
            /\ k \in DOMAIN requests[2].headers
            /\ requests[2].headers[k] = call.headers[k]
            /\ OnlySpelling(k) => SentAlone(k, call.headers[k])

\* C16 witness: the caller supplied X-Payment-Signature and Content-Type,
\* both set by the flow too, and the retry carries the caller's values.
C16_Witness ==
    /\ RetrySent
    /\ DOMAIN call.headers = {"X-Payment-Signature", "Content-Type"}
    /\ paymentResult.signature # call.headers["X-Payment-Signature"]
    /\ requests[2].headers["X-Payment-Signature"] = call.headers["X-Payment-Signature"]
    /\ requests[2].headers["Content-Type"] = call.headers["Content-Type"]
    /\ requests[2].headers["X-Payment-Transaction"] = paymentResult.transaction

-----------------------------------------------------------------------------
(* Failure of the signer, checked under Spec *)

\* C17: when wallet resolution throws inside signAndSubmit (the flow leaves
\* `await getWallet()` by failing), the flow rejects with the FaremeterError
\* SOLANA_PAYMENT_FAILED that signAndSubmit threw, unchanged, and no retry
\* request is sent: the initial request stays the only one, then and ever after.
C17_WalletFailure ==
    /\ [][(pc = "wallet" /\ pc' = "rejected") =>
             /\ error' = SolanaPaymentFailed("wallet")
             /\ error'.class = "FaremeterError"
             /\ error'.code = "SOLANA_PAYMENT_FAILED"
             /\ requests' = requests
             /\ Len(requests') = 1]_vars
    /\ []((pc = "rejected" /\ error.code = "SOLANA_PAYMENT_FAILED") =>
             (Len(requests) = 1 /\ ~ENABLED Next))

\* C17 witness: the signer was called once, the wallet failed, and the flow
\* has rejected with SOLANA_PAYMENT_FAILED after its single request.
C17_Witness ==
    /\ pc = "rejected"
    /\ signCalls = 1
    /\ ~paymentResult.success
    /\ error.code = "SOLANA_PAYMENT_FAILED"
    /\ Len(requests) = 1

-----------------------------------------------------------------------------
(* Order of the steps of executeX402Flow, checked under Spec *)

\* the flow has been called: the initial request is the first one issued
InitialRequestFirst ==
    (pc # "idle") =>
        /\ Len(requests) >= 1
        /\ requests[1] = Request(call, InitialHeaders(call.headers))

\* the signer is called at most once, and only after a 402 whose body parsed
\* and resolved to a non-empty accepts list, with the chosen scheme
SignerAfterAccepts ==
    /\ signCalls \in {0, 1}
    /\ (signCalls = 1) =>
           /\ initialResponse.status = 402
           /\ responseText.valid
           /\ ~ResolveFlowAccepts(responseText.json).threw
           /\ flowAccepts = ResolveFlowAccepts(responseText.json).list
           /\ Len(flowAccepts) > 0
           /\ intent.scheme = chooseScheme(flowAccepts)

\* at most one retry, sent only after the signer returned success
RetryAfterSigner ==
    /\ Len(requests) <= 2
    /\ (Len(requests) = 2) =>
           /\ signCalls = 1
           /\ paymentResult.success
           /\ requests[2] = Request(call, RetryHeaders(call.headers, paymentResult))

\* what is returned is the initial response when it is not a 402, and the
\* response of the retry otherwise
ReturnLast ==
    (pc = "returned") =>
        \/ (result.id = 1 /\ initialResponse.status # 402 /\ Len(requests) = 1 /\ signCalls = 0)
        \/ (result.id = 2 /\ initialResponse.status = 402 /\ Len(requests) = 2 /\ signCalls = 1)

\* a failed flow has stopped before the step that follows the failure
FailedBeforeNextStep ==
    (pc = "rejected") =>
        /\ (error.code \in {"INVALID_402_RESPONSE", "EMPTY_ACCEPTS"}) =>
               (signCalls = 0 /\ Len(requests) = 1)
        /\ (error.code \in {"SOLANA_PAYMENT_FAILED", "PAYMENT_FAILED"}) =>
               (signCalls = 1 /\ Len(requests) = 1)

\* C20: every execution of executeX402Flow follows the order initial request,
\* then (only on 402) parse and accepts resolution, scheme choice, one signer
\* call, one retry request, return; the signer is called only after a 402
\* with non-empty accepts, the retry is sent only after the signer returned
\* success, and once the flow has failed or returned it performs no further
\* request and no further signer call.
C20_StepOrder ==
    /\ [](InitialRequestFirst /\ SignerAfterAccepts /\ RetryAfterSigner /\ ReturnLast
          /\ FailedBeforeNextStep)
    /\ [][(pc \in {"rejected", "returned"}) =>
             (requests' = requests /\ signCalls' = signCalls /\ pc' = pc)]_vars
    /\ [][/\ Len(requests') >= Len(requests)
          /\ signCalls' >= signCalls
          /\ (Len(requests') > Len(requests) /\ Len(requests) = 1) =>
                 (signCalls = 1 /\ paymentResult'.success)
          /\ (signCalls' > signCalls) => (Len(requests) = 1 /\ pc = "text")]_vars

\* C20 witness: a full run, from the initial request over the signer call to
\* the returned response of the retry.
C20_Witness ==
    /\ pc = "returned"
    /\ Len(requests) = 2
    /\ signCalls = 1
    /\ paymentResult.success
    /\ result.id = 2
    /\ Len(flowAccepts) = 2
    /\ intent.scheme = "x-solana-settlement"

-----------------------------------------------------------------------------
(* Network failures of executeX402Flow, checked under Spec *)

\* the flow has reported the failure of a network call
NetworkFailureReported ==
    /\ pc = "rejected"
    /\ error.code = "X402_FLOW_FAILED"
    /\ error.cause = "fetch failed"

\* how often the request that failed last has been issued
AttemptsOfFailedCall ==
    Cardinality({i \in 1..Len(requests) : requests[i] = requests[Len(requests)]})

\* C13 as stated: when a network call of the flow fails, the flow retries it,
\* making up to 1 + maxRetries = 3 attempts in total before it reports the
\* failure; so a failure reported with the default maxRetries comes after
\* three attempts of the failed request.
C13_Original ==
    (NetworkFailureReported /\ call.maxRetries = DefaultMaxRetries) =>
        AttemptsOfFailedCall = 1 + DefaultMaxRetries

-----------------------------------------------------------------------------
(* A proxy that never answers the retry, checked under SpecUnanswered *)

\* the promise of executeX402Flow has settled
FlowSettled == pc \in {"returned", "rejected"}

\* C14 as stated: a purchase attempt never hangs; if the payment proxy never
\* answers one of the requests of the flow, the flow still terminates: while
\* its promise has not settled, a step is left that leads on (in the end the
\* timeout that ends it with an error).
C14_Original == FlowSettled \/ ENABLED NextUnanswered

-----------------------------------------------------------------------------
(* The purchase button of the demo page, checked under SpecPage *)

\* every attempt made so far has run to its end
AttemptsOver == Attempts > 0 /\ Running = 0

\* C15 as stated: every purchase attempt whose request settles (resolves
\* with any status, or rejects) ends with purchasing = false and a non-null
\* result; and while purchasing is true no second attempt can be started
\* (the button is disabled and at most one attempt is under way).
C15_Original ==
    /\ AttemptsOver => (~purchasing /\ ~pageResult.isNull)
    /\ Running <= 1
    /\ (Running = 1) => (purchasing /\ ButtonDisabled)

-----------------------------------------------------------------------------
(* Confirmation of a purchase, checked under SpecTool *)

\* the call has sent a request to the purchase endpoint
PurchaseRequested == \E i \in 1..Len(toolRequests) : toolRequests[i] = PurchaseUrl

\* the call is a purchase that was not confirmed
Unconfirmed ==
    /\ toolCall.tool = "purchase_amazon_product"
    /\ toolCall.confirm \in {"false", "absent"}

\* the payment flow runs only inside a purchase called with confirm = true
FlowOnlyWhenConfirmed ==
    (PurchaseRequested \/ toolPc \in {"flow", "json"}) =>
        (toolCall.tool = "purchase_amazon_product" /\ toolCall.confirm = "true")

\* C12 as stated: purchaseAmazonProduct starts the payment flow only when
\* called with confirm = true; with confirm false or absent it returns a
\* result with needsConfirmation = true and sends no request to the purchase
\* endpoint, in every sequence of tool calls.
C12_Original ==
    /\ FlowOnlyWhenConfirmed
    /\ (Unconfirmed /\ toolResult.returned) =>
           (toolResult.needsConfirmation /\ ~PurchaseRequested)

\* C12 amended: purchaseAmazonProduct starts the payment flow only when
\* called with confirm = true; with confirm false or absent it sends no
\* request to the purchase endpoint, and it returns needsConfirmation = true
\* exactly when its checks passed (the product is known with its signed data
\* and the balance was read and covers the price); when a check fails it
\* returns success = false without needsConfirmation.  A confirmed call never
\* returns needsConfirmation.
C12_FlowNeedsConfirm ==
    /\ FlowOnlyWhenConfirmed
    /\ Unconfirmed => ~PurchaseRequested
    /\ (Unconfirmed /\ toolResult.returned) =>
           /\ toolResult.needsConfirmation <=> toolResult.success
           /\ toolResult.success =>
                  (product.signed /\ product.asin = toolCall.sku
                   /\ toolRequests[Len(toolRequests)] = WalletUrl)
           /\ ~toolResult.success =>
                  toolResult.error \in {"not found", "not found in search results",
                                        "Missing signed product data",
                                        "Could not check wallet balance",
                                        "Insufficient USDC balance"}
    /\ toolResult.needsConfirmation => Unconfirmed

\* C12 witness: after a search that cached the product, a purchase without
\* the confirm parameter returned needsConfirmation having asked the wallet
\* API only.
C12_Witness ==
    /\ toolCalls = 2
    /\ toolCall = [tool |-> "purchase_amazon_product", sku |-> "B00EXAMPLE",
                   confirm |-> "absent"]
    /\ toolResult.returned
    /\ toolResult.needsConfirmation
    /\ toolRequests = <<WalletUrl>>

-----------------------------------------------------------------------------
(* Initialization of the wallet, checked under SpecWallet *)

\* the callers whose call of getWallet returned a keypair
Served == {c \in Callers : callers[c].pc \in {"resolving", "resolved"}}

\* C18: within one process, for every interleaving of concurrent getWallet
\* calls, cold start included, the wallet is initialized at most once: at
\* most one keypair is generated, the wallet file is written at most once,
\* and every call returns the same keypair, the one the first call cached.
C18_SingleInitialization ==
    /\ generated <= 1
    /\ fileWrites <= 1
    /\ fileWrites <= generated
    /\ \A c \in Served : callers[c].got = cachedWallet /\ cachedWallet # NoKeypair
    /\ \A c, d \in Served : callers[c].got = callers[d].got
    /\ [][(cachedWallet # NoKeypair) =>
             (cachedWallet' = cachedWallet /\ generated' = generated
              /\ fileWrites' = fileWrites /\ walletFile' = walletFile)]_vars

\* C18 witness: cold start without secret and without file; all callers
\* called before any await resumed, the write of the file failed, and every
\* caller holds the one generated keypair.
C18_Witness ==
    /\ walletEnv = "absent"
    /\ walletFile = "absent"
    /\ generated = 1
    /\ fileWrites = 1
    /\ \A c \in Callers : callers[c] = [pc |-> "resolving", got |-> "new-1"]

-----------------------------------------------------------------------------
(* Independence of concurrent flows, checked under SpecPair *)

\* invocation f has settled
Finished(f) == flows[f].pc \in {"returned", "rejected"}

\* the settled promise of invocation f and the requests it sent
EndOf(f) == Settled(flows[f].pc, flows[f].result, flows[f].error, flows[f].requests)

\* C19: flow invocations are independent: for every interleaving of
\* concurrently running executeX402Flow calls, the result of each call (the
\* response or error, and the requests sent) is what the call gives running
\* alone with the same server responses and the same signer output; a step
\* of one invocation changes no local of another; and the flows write no
\* shared state but the cached wallet: the product cache and the dev balance
\* ledger stay as they were, and the wallet, once cached, does not change.
C19_FlowsIndependent ==
    /\ [](\A f \in Flows : Finished(f) => EndOf(f) = RunAlone(flows[f].call, flows[f].inputs))
    /\ [][\A f, g \in Flows : (flows'[f] # flows[f] /\ g # f) => flows'[g] = flows[g]]_vars
    /\ [][productCache' = productCache /\ devBalance' = devBalance]_vars
    /\ [][(cachedWallet # NoKeypair) => UNCHANGED <<cachedWallet, walletFile, generated,
                                                    fileWrites>>]_vars

\* C19 witness: two invocations under way at once from a cold start; the
\* first has returned the answer to its retry while the second, answered 402
\* as well and signing with the same wallet, still waits for its retry.
C19_Witness ==
    /\ flows[1].pc = "returned"
    /\ flows[1].result = Response(2, 500)
    /\ flows[2].pc = "fetch2"
    /\ flows[1].call.endpoint # flows[2].call.endpoint
    /\ generated = 1
    /\ cachedWallet = "new-1"
    /\ flows[1].paymentResult.details.walletAddress
           = flows[2].paymentResult.details.walletAddress
    /\ flows[1].paymentResult.signature # flows[2].paymentResult.signature

-----------------------------------------------------------------------------
(* Field the accepts list is taken from, checked under SpecErrors *)

\* the value of the first of accepts, payment_methods, schemes that is an
\* array; the empty list when none is
FirstArrayField(d) ==
    IF IsArray(d.accepts) THEN d.accepts.v
    ELSE IF IsArray(d.payment_methods) THEN d.payment_methods.v
    ELSE IF IsArray(d.schemes) THEN d.schemes.v
    ELSE <<>>

\* the flow has parsed a 402 body that is not null
FlowParsed == responseText.valid /\ responseText.json.k # "null"

\* fetchAccepts has parsed a 402 body that is not null
FetchParsed == faData.valid /\ faData.json.k # "null"

\* C21: the accepts list resolved from a 402 body is taken from the first of
\* the fields accepts, payment_methods, schemes whose value is an array; an
\* earlier field that is an empty array ends the search, so the call fails
\* with EMPTY_ACCEPTS whatever the later fields hold; when none of the three
\* is an array the list is empty.  In the flow and in fetchAccepts alike.
C21_FirstArrayField ==
    /\ FlowParsed =>
          LET src == FirstArrayField(responseText.json)
          IN /\ (Len(src) = 0) <=> (error.code = "EMPTY_ACCEPTS")
             /\ (Len(src) = 0) => (signCalls = 0 /\ flowAccepts = <<>>)
             /\ (flowAccepts = <<>> /\ Len(src) > 0) =>
                    (IsArray(responseText.json.accepts) /\ \E i \in 1..Len(src) : src[i] = Null)
             /\ (flowAccepts # <<>>) =>
                    /\ Len(flowAccepts) = Len(src)
                    /\ \A i \in 1..Len(src) : flowAccepts[i] \in {src[i], Str(src[i].v)}
    /\ FetchParsed =>
          LET src == FirstArrayField(faData.json)
          IN /\ (Len(src) = 0) <=> (faError.code = "EMPTY_ACCEPTS")
             /\ (Len(src) = 0) <=> (faPc = "rejected")
             /\ (faPc = "returned" /\ faData.json.accepts.k # "scalar") =>
                    faResult.accepts = Arr(src)

\* C21 witness: the flow rejected {accepts: [], payment_methods: ['foo-scheme']}
\* with EMPTY_ACCEPTS.
C21_Witness ==
    /\ pc = "rejected"
    /\ error.code = "EMPTY_ACCEPTS"
    /\ responseText = TextOf(JsonObject(Arr(<<>>), Arr(<<Str("foo-scheme")>>), Absent, 0, ""))

-----------------------------------------------------------------------------
(* What fetchAccepts returns, checked under SpecAccepts *)

\* C23 as stated: whenever fetchAccepts returns normally for a 402 response,
\* the accepts field of the returned AcceptsHeader is the resolved list and
\* has length at least 1, for every 402 body, also when the list came from
\* payment_methods or schemes and the body holds a non-array accepts.
C23_Original ==
    (faPc = "returned" /\ faResponse.status = 402) =>
        /\ IsArray(faResult.accepts)
        /\ faResult.accepts.v = FirstArrayField(faData.json)
        /\ Len(faResult.accepts.v) >= 1

\* C24: fetchAccepts classifies the response by its status: a 200 returns
\* { accepts: [] } and raises no error; a status other than 200 and 402 fails
\* with UNEXPECTED_STATUS carrying the status and the endpoint; only the body
\* of a 402 is read and parsed.
C24_StatusClasses ==
    (faPc \in {"json", "returned", "rejected"} /\ faResponse # NoResponse) =>
        /\ (faResponse.status = 200) =>
               /\ faPc = "returned"
               /\ faResult = [NoAcceptsHeader EXCEPT !.accepts = Arr(<<>>)]
               /\ faError = NoError
        /\ (faResponse.status \notin {200, 402}) =>
               /\ faPc = "rejected"
               /\ faError = FaremeterError("UNEXPECTED_STATUS", faEndpoint, faResponse.status, "")
               /\ faResult = NoAcceptsHeader
        /\ (faResponse.bodyUsed \/ faData # NoText) => faResponse.status = 402

\* C24 witness: a 404 has been rejected with UNEXPECTED_STATUS.
C24_Witness ==
    /\ faPc = "rejected"
    /\ faResponse.status = 404
    /\ faError.code = "UNEXPECTED_STATUS"
    /\ faError.status = 404
    /\ faError.endpoint = faEndpoint

-----------------------------------------------------------------------------
(* Shapes of the 402 body, checked under Spec *)

\* C27 as stated: for every 402 body that parses as JSON (null, numbers,
\* strings and arrays included) the flow either proceeds to the signer with a
\* non-empty accepts list or rejects with EMPTY_ACCEPTS; the shape of the body
\* never makes it reject with X402_FLOW_FAILED or another code.  (A request
\* body btoa rejects fails after the resolution, whatever the 402 body is.)
C27_Original ==
    (responseText.valid /\ call.body # "unicode") =>
        \/ (signCalls = 1 /\ Len(flowAccepts) > 0)
        \/ (error.code = "EMPTY_ACCEPTS" /\ signCalls = 0)

-----------------------------------------------------------------------------
(* Preconditions of a purchase, checked under SpecTool *)

\* the balance read in this call does not cover the price of the product
BalanceLower == balanceResult.USDC < product.price.amount * Quantity

\* C28 as stated: purchaseAmazonProduct starts the payment flow only if the
\* product has both productBlob and signature and the USDC balance read from
\* the wallet API in that same call is at least unitPrice x quantity; if the
\* balance cannot be read, is lower than the total, or signed data is
\* missing, it returns success = false and sends no request to the purchase
\* endpoint.
C28_Original ==
    /\ (PurchaseRequested \/ toolPc \in {"flow", "json"}) =>
           (product.signed /\ balanceResult.success /\ ~BalanceLower)
    /\ (toolCall.tool = "purchase_amazon_product" /\ toolResult.returned
         /\ (~product.signed \/ ~balanceResult.success \/ BalanceLower)) =>
           (~toolResult.success /\ ~PurchaseRequested)

-----------------------------------------------------------------------------
(* The product cache, checked under SpecCache *)

\* ASINs a response can name
ListedAsins == ToolSkus \cup {"B0OTHER"}

\* positions <<n, i>> of the log: entry i of the n-th search that returned,
\* where that entry names `asin` and carries productBlob and signature
Written(asin) ==
    {w \in UNION {{<<n, i>> : i \in 1..Len(searchLog[n])} : n \in 1..Len(searchLog)} :
        /\ searchLog[w[1]][w[2]].asin = asin
        /\ searchLog[w[1]][w[2]].signed}

\* w comes before or at x in the order of the writes
NotAfter(w, x) == w[1] < x[1] \/ (w[1] = x[1] /\ w[2] <= x[2])

\* the last write for `asin`
LastWritten(asin) ==
    LET x == CHOOSE x \in Written(asin) : \A w \in Written(asin) : NotAfter(w, x)
    IN searchLog[x[1]][x[2]]

\* C25: the product cache is last-write-wins and never mutated in place:
\* after any interleaving of searches the entry of an ASIN is the product
\* written by the most recent search that returned that ASIN with an asin, a
\* productBlob and a signature, and there is no entry for an ASIN no search
\* returned so; no step removes an entry, an entry changes only in a step in
\* which a search returns, and a purchase reads its product from the cache
\* and leaves the cache as it is.
C25_LastWriteWins ==
    /\ [](/\ DOMAIN productCache = {a \in ListedAsins : Written(a) # {}}
          /\ \A a \in DOMAIN productCache : productCache[a] = LastWritten(a))
    /\ [][(DOMAIN productCache) \subseteq (DOMAIN productCache')]_vars
    /\ [][(searchLog' = searchLog) => (productCache' = productCache)]_vars
    /\ [][(toolCalls' # toolCalls /\ toolCall'.sku \in DOMAIN productCache) =>
             (product' = productCache[toolCall'.sku] /\ productCache' = productCache)]_vars

\* C25 witness: two searches returned the same ASIN one after the other with
\* different product objects, the cache holds the second one, and the
\* purchase has read it.
C25_Witness ==
    /\ Len(searchLog) = 2
    /\ searchLog[1] = <<Item("B00EXAMPLE", TRUE, PriceNumber(ItemPrice))>>
    /\ searchLog[2] = <<Item("B00EXAMPLE", TRUE, PriceObject(ItemPrice))>>
    /\ \A s \in Searches : searches[s].pc = "done"
    /\ productCache["B00EXAMPLE"] = Item("B00EXAMPLE", TRUE, PriceObject(ItemPrice))
    /\ toolCalls = 1
    /\ product = productCache["B00EXAMPLE"]

-----------------------------------------------------------------------------
(* Normalization of the entries, checked under SpecResolve *)

\* a scheme identifier, or an object {method: s}
SchemeEntry(e) == (e.k = "str" /\ e.v # "") \/ (e.k = "obj" /\ e.v # "")

\* every entry of the field is a string or a {method: s} object
SchemeEntries(f) == IsArray(f) => \A i \in 1..Len(f.v) : SchemeEntry(f.v[i])

\* the body is an object whose lists hold strings and {method: s} objects only
SchemeBody(d) ==
    /\ d.k = "object"
    /\ SchemeEntries(d.accepts)
    /\ SchemeEntries(d.payment_methods)
    /\ SchemeEntries(d.schemes)

\* C22 as stated: for the same 402 body fetchAccepts and the resolution done
\* inside executeX402Flow produce the same list of scheme identifier
\* strings, in which every entry {method: s} has been replaced by s,
\* whichever of accepts, payment_methods, schemes the list comes from.
C22_Original ==
    (fetchList.done /\ flowList.done /\ SchemeBody(acceptsData.json)) =>
        /\ ~fetchList.threw
        /\ ~flowList.threw
        /\ fetchList.list = flowList.list
        /\ \A i \in 1..Len(flowList.list) : IsString(flowList.list[i])

-----------------------------------------------------------------------------
(* Funding of the dev wallet, checked under SpecFund *)

\* the fundDevWallet calls that were made
Funding == {f \in Funders : funders[f].pc # "idle"}

RECURSIVE Funded(_)
\* the sum of the amounts of the calls in F
Funded(F) ==
    IF F = {} THEN 0
    ELSE LET f == CHOOSE f \in F : TRUE IN funders[f].amount + Funded(F \ {f})

\* C26 as stated: funding is additive under concurrency: starting from the
\* dev balance b, once n fundDevWallet calls for one currency have all
\* completed (their writes having succeeded), in whatever interleaving, the
\* persisted balance of that currency is b plus the sum of their amounts and
\* the balance of the other currency is unchanged.
C26_Original ==
    \A c \in Currencies :
        (/\ Funding # {}
         /\ \A f \in Funding : /\ funders[f].pc = "done"
                                /\ funders[f].saved
                                /\ funders[f].currency = c) =>
            /\ devFile = "ok"
            /\ devBalance[c] = startBalance[c] + Funded(Funding)
            /\ \A o \in Currencies \ {c} : devBalance[o] = startBalance[o]

-----------------------------------------------------------------------------
(* Dismissal of the health banner, checked under SpecBanner *)

\* C29 as stated: once the user has dismissed the banner it is never visible
\* again for the lifetime of the component, whatever the later periodic
\* health checks find; and while it is not dismissed, a health check that
\* found the configuration invalid or a service unhealthy has made it visible.
C29_Original ==
    /\ isDismissed => ~BannerShown
    /\ (~isDismissed /\ Len(services) > 0 /\ (~configValid \/ SomeUnhealthy(services))) =>
           BannerShown

-----------------------------------------------------------------------------
(* Termination of the tool loop, checked under SpecChatFair *)

\* the call has returned the final stream or thrown
ChatSettled == chatPc \in {"returned", "thrown"}

\* C30 as stated: createAutonomousChatStream terminates: for every sequence
\* of model responses and tool results the tool loop stops after a bounded
\* number of rounds and the call returns a final stream or throws; it does
\* not go on executing tool calls forever while the model keeps requesting
\* tools.
C30_Original == <>ChatSettled

=============================================================================
